---------------------------- MODULE Spec2Model ----------------------------
(***************************************************************************)
(* Orchestration pipeline of the video scoring server.                     *)
(*                                                                         *)
(*   SpecRetry  the Retry Executor (retryApiCall) driving one wrapped      *)
(*              operation whose outcome at every invocation is chosen by   *)
(*              the remote service.                                        *)
(*   SpecIndex  the start-up call of getOrCreateGlobalIndex and the        *)
(*              /generate-post requests that call it again while           *)
(*              GLOBAL_INDEX_ID is still null.                             *)
(*   Spec       one run of an /analyze-video handler, for each handler     *)
(*              variant modelled below.                                    *)
(***************************************************************************)
EXTENDS Integers, Sequences, FiniteSets, TLC

VARIABLES
    \* ---- Retry Executor on its own (SpecRetry) ----
    rc,             \* the retryApiCall activation: [st, retries, delay, res]
    rDefault,       \* TRUE iff retryApiCall was called with its default arguments
    rDelay0,        \* the initial delay the call was started with
    rInvocations,   \* number of times fn() has been invoked
    rSleeps,        \* the durations passed to sleep(), in order
    rErrors,        \* the errors thrown by fn(), in order
    rAccepted,      \* requests of fn() the service carried out
    \* ---- one run of an /analyze-video handler (Spec) ----
    handler,        \* which handler variant serves the request
    reqFile,        \* req.file is present
    GLOBAL_INDEX_ID,\* the process-wide index id, Null until initialised
    pc,             \* position of the handler
    loc,            \* local variables of the handler activation
    call,           \* the retryApiCall activation the handler awaits
    fan,            \* the two retryApiCall activations under Promise.all
    events,         \* events written to the response while it is open
    lateWrites,     \* events passed to res.write after res.end()
    ended,          \* res.end() has been called
    fileExists,     \* the local temporary asset exists on disk
    thrown,         \* the error the handler's catch block received
    hist,           \* history of the run: polls seen, cleanup attempts
    \* ---- initialisation of the global index (SpecIndex) ----
    indexes,        \* indexes named GLOBAL_INDEX_NAME held by the service
    initPc,         \* position of each caller of getOrCreateGlobalIndex
    \* ---- the signal extraction agents of one run (SpecSignals) ----
    variant,        \* which file's agents and merge serve the run
    audience,       \* the audience variable of the handler
    searches,       \* per catalogue query: the call and what it returned
    pacing,         \* the analyzePacing call and what it returned
    niche,          \* the nichePromise
    gist,           \* the gist call awaited together with the agents
    stage,          \* position of the handler
    finalData       \* the response of the run

rvars == <<rc, rDefault, rDelay0, rInvocations, rSleeps, rErrors, rAccepted>>

pvars == <<handler, reqFile, GLOBAL_INDEX_ID, pc, loc, call, fan, events,
           lateWrites, ended, fileExists, thrown, hist>>

ivars == <<indexes, initPc>>

svars == <<variant, audience, searches, pacing, niche, gist, stage, finalData>>

vars == <<rc, rDefault, rDelay0, rInvocations, rSleeps, rErrors, rAccepted,
          handler, reqFile, GLOBAL_INDEX_ID, pc, loc, call, fan, events,
          lateWrites, ended, fileExists, thrown, hist, indexes, initPc,
          variant, audience, searches, pacing, niche, gist, stage, finalData>>

-----------------------------------------------------------------------------
(***************************************************************************)
(* Bounds of the model.                                                    *)
(***************************************************************************)
MaxRetries == 3      \* largest explicit `retries` argument tried

MaxGeminiPolls == 61 \* polls that may still find the uploaded file PROCESSING

MaxChunks == 28      \* chunks of one generation stream

RejectionCap == 2    \* rejected attempts counted per run; the cap reads "or more"

MaxRequests == 2     \* /generate-post requests arriving during initialisation

MaxClips == 2        \* clips of one video that match one search query

(***************************************************************************)
(* Program constants.                                                      *)
(***************************************************************************)
DefaultRetriesPlusOne == 3 + 1

DefaultRetries == 3

DefaultDelay == 1000

-----------------------------------------------------------------------------
(***************************************************************************)
(* Outcomes of one remote call.  status = 0 stands for an error object     *)
(* that carries neither response.status nor statusCode.                    *)
(***************************************************************************)
Ok(v) == [ok |-> TRUE, val |-> v, status |-> 0, message |-> ""]

Err(s, m) == [ok |-> FALSE, val |-> "", status |-> s, message |-> m]

NoResult == [ok |-> FALSE, val |-> "", status |-> 0, message |-> "pending"]

Statuses == {0, 429, 400}

Errors == {Err(s, m) : s \in Statuses, m \in {"boom-a", "boom-b"}}

Successes == {Ok("r1"), Ok("r2")}

\* error.response?.status === 429 || error.statusCode === 429
isRateLimit(error) == error.status = 429

-----------------------------------------------------------------------------
(***************************************************************************)
(* retryApiCall(fn, retries = 3, delay = 1000)                             *)
(*   st = "calling"   fn() has been invoked and is awaited                 *)
(*   st = "sleeping"  the catch block awaits sleep(delay)                  *)
(*   st = "returned"  the activation returned res                          *)
(*   st = "thrown"    the activation threw res                             *)
(***************************************************************************)
retryApiCall(retries, delay) ==
    [st |-> "calling", retries |-> retries, delay |-> delay, res |-> NoResult]

\* catch (error) { if (retries === 0) throw error; ...; await sleep(delay); ... }
\* Every error takes the same path: isRateLimit only selects the log text.
\* The caught error is dead once the sleep is awaited.
retryWrapLast(c, error) ==
    IF c.retries = 0
    THEN [c EXCEPT !.st = "thrown", !.res = Err(0, "retries exhausted")]
    ELSE [c EXCEPT !.st = "sleeping"]

retryCatch(c, error) ==
    IF c.retries = 0
    THEN [c EXCEPT !.st = "thrown", !.res = error]
    ELSE [c EXCEPT !.st = "sleeping"]

\* try { return await fn(); } catch (error) { ... }
retrySettleNoRetry(c, out) ==
    IF out.ok THEN [c EXCEPT !.st = "returned", !.res = out]
    ELSE [c EXCEPT !.st = "thrown", !.res = out]

retrySettle(c, out) ==
    IF out.ok THEN [c EXCEPT !.st = "returned", !.res = out]
    ELSE retryCatch(c, out)

\* return retryApiCall(fn, retries - 1, delay * 2)
retryNoDouble(c) ==
    [c EXCEPT !.st = "calling", !.retries = c.retries - 1]

retryForever(c) == [c EXCEPT !.st = "calling"]

retryRecurse(c) ==
    [c EXCEPT !.st = "calling", !.retries = c.retries - 1, !.delay = c.delay * 2]

-----------------------------------------------------------------------------
(***************************************************************************)
(* Progress fractions.  The handlers add 0.01, 0.05 or 0.02 to an IEEE     *)
(* double; a fraction is kept as its value in hundredths (h) and the sign  *)
(* of the accumulated rounding error against the double literal h/100 (e). *)
(* The error signs are those of the double-precision sums the loops        *)
(* compute from their start values 0.3, 0.2 and 0.7.                       *)
(***************************************************************************)
F(h) == [h |-> h, e |-> 0]

FloatLess(a, b) == a.h < b.h \/ (a.h = b.h /\ a.e < b.e)

FloatLeq(a, b) == ~FloatLess(b, a)

\* pollProgress += 0.01
AddPollStep(p) == [h |-> p.h + 1, e |-> IF p.h + 1 >= 35 THEN 1 ELSE 0]

\* if (pollProgress < 0.45) { pollProgress += 0.01; sendEvent(...) }
pollBumpUncapped(p) == AddPollStep(p)

pollBump(p) == IF FloatLess(p, F(45)) THEN AddPollStep(p) ELSE p

\* processingProgress += 0.05
AddProcessingStep(p) ==
    [h |-> p.h + 5, e |-> IF p.h + 5 \in {40, 45, 50, 55} THEN 0 - 1 ELSE 0]

\* if (processingProgress < 0.6) { processingProgress += 0.05; sendEvent(...) }
processingBump(p) == IF FloatLess(p, F(60)) THEN AddProcessingStep(p) ELSE p

\* generationProgress += 0.02
AddGenerationStep(p) == [h |-> p.h + 2, e |-> IF p.h + 2 >= 82 THEN 1 ELSE 0]

\* if (chunkCount % 2 === 0 && generationProgress < 0.95) { += 0.02; sendEvent }
generationBump(n, p) ==
    IF n % 2 = 0 /\ FloatLess(p, F(95)) THEN AddGenerationStep(p) ELSE p

\* Number(x.toFixed(2))
toFixed2(p) == F(p.h)

-----------------------------------------------------------------------------
(***************************************************************************)
(* Events of the SSE stream.                                               *)
(***************************************************************************)
Progress(m, f) == [type |-> "progress", message |-> m, progress |-> f]

ErrorEvent(m) == [type |-> "error", message |-> m]

Complete(r) == [type |-> "complete", result |-> r]

\* res.status(code).json(body) of the handlers that answer with one JSON body
Json(code, body) == [type |-> "json", status |-> code, body |-> body]

JsonError(code, m) == [type |-> "json", status |-> code, error |-> m]

\* err.message || "Analysis failed"
errMessage(err, dflt) == IF err.message = "" THEN dflt ELSE err.message

-----------------------------------------------------------------------------
(***************************************************************************)
(* Values exchanged with the two services.                                 *)
(***************************************************************************)
Null == "null"

PollAttempts == 60

TaskStatuses == {"validating", "pending", "queued", "indexing", "ready", "failed"}

\* Errors a remote call of a run may reject with.
PipelineErrors == {Err(429, "boom-a"), Err(0, "boom-b"), Err(400, "")}

\* Shapes of the analyze() result: a bare string, {data: string},
\* {content: string}, each with a non-empty or an empty string, or an object
\* that has neither field.
AnalyzeShapes ==
    {"string", "data", "content", "object",
     "emptyString", "emptyData", "emptyContent"}

Undefined == "undefined"

\* The analyze() result of a shape: bare is the string itself for a bare
\* string; data and content are the fields of an object.
pegasusResult(shape) ==
    [bare |-> CASE shape = "string" -> "txt"
                [] shape = "emptyString" -> ""
                [] OTHER -> Undefined,
     data |-> CASE shape = "data" -> "txt"
                [] shape = "emptyData" -> ""
                [] OTHER -> Undefined,
     content |-> CASE shape = "content" -> "txt"
                   [] shape = "emptyContent" -> ""
                   [] OTHER -> Undefined]

\* The string a response holds, Undefined if it holds none.
heldString(r) ==
    IF r.bare # Undefined THEN r.bare
    ELSE IF r.data # Undefined THEN r.data
    ELSE r.content

\* undefined and "" are falsy
truthy(x) == x # Undefined /\ x # ""

\* pegasusResult.data || pegasusResult.content || pegasusResult :
\* Undefined stands for the response object itself.
rawAnalysisText(r) ==
    IF truthy(r.data) THEN r.data
    ELSE IF truthy(r.content) THEN r.content
    ELSE r.bare

\* rawAnalysisText is a string
rawIsString(shape) == rawAnalysisText(pegasusResult(shape)) # Undefined

\* The normalized text is not the string the response holds.
rawMismatch(shape) ==
    LET r == pegasusResult(shape)
    IN heldString(r) # Undefined /\ rawAnalysisText(r) # heldString(r)

\* A gist() answer with as many hashtags as the merge keeps.
TenDetected ==
    <<"#d", "#e", "#f", "#g", "#h", "#i", "#j", "#k", "#l", "#m">>

\* gist() results: hashtags / topics present or not.
GistResults ==
    { [hasHashtags |-> hh, hashtags |-> hs, hasTopics |-> ht, topics |-> ts] :
        hh \in BOOLEAN, ht \in BOOLEAN,
        hs \in {<<>>, <<"#a", "#d">>, TenDetected}, ts \in {<<"#t">>} }

\* gistResult.hashtags || gistResult.topics || []   (an empty array is truthy)
detectedOf(g) ==
    IF g.hasHashtags THEN g.hashtags
    ELSE IF g.hasTopics THEN g.topics
    ELSE <<>>

SubSeqTo(s, n) == IF Len(s) <= n THEN s ELSE SubSeq(s, 1, n)

HashtagCap == 10

\* .slice(0, 10)
slice10(s) == SubSeqTo(s, HashtagCap)

-----------------------------------------------------------------------------
(***************************************************************************)
(* JSON values the scoring service may answer with.  kind is the JSON type *)
(* of the parsed value; for an object the has* flags say which members are *)
(* present and scores maps the numeric sub-scores that are present.        *)
(***************************************************************************)
ScoreNames7 == {"overall", "potential", "hook", "retention", "visuals",
                "audio", "pacing"}

ScoreNames == ScoreNames7 \cup {"dialogue"}

Report(sc, fb, hs) ==
    [kind |-> "object", hasScores |-> TRUE, scores |-> sc,
     hasAnalysis |-> TRUE, feedback |-> fb,
     strengths |-> <<"s1">>, weaknesses |-> <<"w1">>, tips |-> <<"t1">>,
     hasLists |-> TRUE,
     hasMetadata |-> TRUE, hasHashtags |-> TRUE, hashtags |-> hs,
     hasCaption |-> TRUE]

ProducedHashtags == {<<>>, <<"#a">>, <<"#a", "#b", "#c">>}

GoodReports == {Report([n \in ScoreNames |-> v], "feedback", hs) :
                    v \in {0, 70, 100}, hs \in ProducedHashtags}

TypicalReports == {Report([n \in ScoreNames |-> 70], "feedback", hs) :
                       hs \in ProducedHashtags}

\* One required numeric score is missing.
MissingScoreReports ==
    {Report([n \in ScoreNames \ {f} |-> 70], "feedback", hs) :
        f \in ScoreNames, hs \in {<<"#a">>}}

\* One numeric score lies outside [0, 100].
OutOfRangeReports ==
    {Report([n \in ScoreNames |-> IF n = f THEN v ELSE 70], "feedback", <<"#a">>) :
        f \in {"overall", "dialogue"}, v \in {0 - 1, 101}}

EmptyObject ==
    [Report([n \in {} |-> 0], "", <<>>) EXCEPT
        !.hasScores = FALSE, !.hasAnalysis = FALSE, !.hasLists = FALSE,
        !.strengths = <<>>,
        !.weaknesses = <<>>, !.tips = <<>>, !.hasMetadata = FALSE,
        !.hasHashtags = FALSE, !.hasCaption = FALSE]

JsonNull == [EmptyObject EXCEPT !.kind = "null"]

JsonNumber == [EmptyObject EXCEPT !.kind = "number"]

WrongShapeReports ==
    {EmptyObject, JsonNull, JsonNumber}
    \cup {[r EXCEPT !.hasMetadata = FALSE, !.hasHashtags = FALSE,
                    !.hashtags = <<>>, !.hasCaption = FALSE] : r \in TypicalReports}
    \cup {[r EXCEPT !.hasHashtags = FALSE, !.hashtags = <<>>] : r \in TypicalReports}
    \cup {[r EXCEPT !.hasAnalysis = FALSE, !.hasLists = FALSE, !.feedback = "",
                    !.strengths = <<>>, !.weaknesses = <<>>, !.tips = <<>>] :
             r \in TypicalReports}

\* A report whose hashtag list is longer than the cap of the merge.
ManyHashtags ==
    <<"#a", "#b", "#c", "#e", "#f", "#g", "#h", "#i", "#j", "#k", "#l">>

LongHashtagReports == {Report([n \in ScoreNames |-> 70], "feedback", ManyHashtags)}

JsonValues ==
    GoodReports \cup MissingScoreReports \cup OutOfRangeReports
    \cup WrongShapeReports \cup LongHashtagReports

\* A response text: parseable JSON or not, possibly wrapped in ```json fences.
ScoreTexts ==
    {[fenced |-> f, parses |-> TRUE, json |-> v] :
        f \in BOOLEAN, v \in JsonValues}
    \cup {[fenced |-> f, parses |-> FALSE, json |-> EmptyObject] : f \in BOOLEAN}

\* text.replace(/```json|```/g, "").trim()
cleanJson(text) == [text EXCEPT !.fenced = FALSE]

\* JSON.parse succeeds on the text
jsonParses(text) == text.parses /\ ~text.fenced

-----------------------------------------------------------------------------
(***************************************************************************)
(* Scoring Validator of the Efficient Mode handler: JSON.parse with a      *)
(* fallback, then the hashtag merge (outside the inner try).               *)
(***************************************************************************)
\* analysisData = { scores: { overall: 50 },
\*                  analysis: { brutal_feedback: "Error parsing AI response." } }
FallbackEfficient ==
    [EmptyObject EXCEPT !.hasScores = TRUE,
                        !.scores = [n \in {"overall"} |-> 50],
                        !.hasAnalysis = TRUE,
                        !.feedback = "Error parsing AI response."]

\* try { analysisData = JSON.parse(cleanJson) } catch (e) { analysisData = ... }
parseEfficient(text) ==
    IF jsonParses(cleanJson(text)) THEN text.json ELSE FallbackEfficient

\* !analysisData.metadata?.hashtags || analysisData.metadata.hashtags.length < 3
needsMerge(a) == ~a.hasMetadata \/ ~a.hasHashtags \/ Len(a.hashtags) < 3

\* The merge dereferences analysisData: null has no properties, and a
\* primitive cannot take the metadata property in module (strict) code.
mergeThrows(a) == a.kind = "null" \/ (a.kind # "object" /\ needsMerge(a))

mergeError(a) ==
    IF a.kind = "null"
    THEN Err(0, "Cannot read properties of null (reading 'metadata')")
    ELSE Err(0, "Cannot create property 'metadata' on number")

\* analysisData.metadata.hashtags =
\*   [...detectedHashtags, ...(analysisData.metadata.hashtags || [])].slice(0, 10)
mergeHashtags(a, detected) ==
    IF needsMerge(a)
    THEN [a EXCEPT !.hasMetadata = TRUE, !.hasHashtags = TRUE,
                   !.hashtags = slice10(detected \o a.hashtags)]
    ELSE a

(***************************************************************************)
(* Scoring Validator of the Accordion handler: analysisSchema.parse of the *)
(* parsed JSON, with a fallback for any parse or validation failure.       *)
(***************************************************************************)
\* z.number().min(0).max(100)
scoreInRange(v) == 0 <= v /\ v <= 100

schemaIgnoresMissing(v) ==
    /\ v.kind = "object"
    /\ v.hasScores
    /\ \A n \in DOMAIN v.scores : scoreInRange(v.scores[n])
    /\ v.hasAnalysis /\ v.hasLists
    /\ v.hasMetadata /\ v.hasCaption /\ v.hasHashtags

\* analysisSchema.parse(value) does not throw
analysisSchema(v) ==
    /\ v.kind = "object"
    /\ v.hasScores
    /\ \A n \in ScoreNames : n \in DOMAIN v.scores /\ scoreInRange(v.scores[n])
    /\ v.hasAnalysis /\ v.hasLists
    /\ v.hasMetadata /\ v.hasCaption /\ v.hasHashtags

FallbackAccordion ==
    [Report([n \in ScoreNames |-> 50], "Error parsing AI output", <<>>) EXCEPT
        !.strengths = <<>>, !.weaknesses = <<>>, !.tips = <<>>]

\* try { analysisData = analysisSchema.parse(JSON.parse(jsonText)) }
\* catch (err) { analysisData = { ...fallback... } }
parseAccordion(text) ==
    IF jsonParses(cleanJson(text)) /\ analysisSchema(text.json)
    THEN text.json ELSE FallbackAccordion

\* if (!analysisData.metadata.hashtags.length)
\*   analysisData.metadata.hashtags = detectedHashtags.slice(0, 10)
fillHashtags(a, detected) ==
    IF Len(a.hashtags) = 0 THEN [a EXCEPT !.hashtags = slice10(detected)] ELSE a

-----------------------------------------------------------------------------
(***************************************************************************)
(* State of one handler activation.                                        *)
(***************************************************************************)
ServerHandlers == {"efficient", "accordion"}

GeminiHandlers == {"gemini", "gemini25"}

Handlers == ServerHandlers \cup GeminiHandlers \cup {"hybrid", "roast", "pegasus"}

CallIdle == [st |-> "idle", retries |-> 0, delay |-> 0, res |-> NoResult]

FanIdle == [analyze |-> CallIdle, gist |-> CallIdle]

Loc0 ==
    [i |-> 0, pollProgress |-> F(30), videoId |-> Null,
     pegasusShape |-> "string", detectedHashtags |-> <<>>,
     analysisData |-> EmptyObject,
     fileState |-> "none", processingProgress |-> F(20),
     chunkCount |-> 0, generationProgress |-> F(70),
     audience |-> ""]

Hist0 ==
    [ready |-> FALSE, failed |-> FALSE, pending |-> 0,
     deletes |-> 0, unlinkFailed |-> FALSE, gPolls |-> 0,
     response |-> "none",
     remote |-> FALSE, rejections |-> 0, deleteFailed |-> FALSE,
     foreign |-> FALSE, produced |-> 0, detected |-> 0,
     callerAudience |-> "", nicheCalled |-> FALSE, rawMismatch |-> FALSE]

\* Callers of getOrCreateGlobalIndex: 0 is the call made at server start,
\* 1..MaxRequests are /generate-post requests.
Callers == 0..MaxRequests

IndexIdle == indexes = 0 /\ initPc = [c \in Callers |-> "idle"]

SignalsIdle ==
    /\ variant = "none" /\ audience = ""
    /\ searches = <<>> /\ pacing = <<>> /\ niche = <<>> /\ gist = <<>>
    /\ stage = "idle" /\ finalData = <<>>

PipelineIdle ==
    /\ handler = "none" /\ reqFile = FALSE /\ GLOBAL_INDEX_ID = Null
    /\ pc = "idle" /\ loc = Loc0 /\ call = CallIdle /\ fan = FanIdle
    /\ events = <<>> /\ lateWrites = <<>> /\ ended = FALSE
    /\ fileExists = FALSE /\ thrown = NoResult /\ hist = Hist0

Init ==
    /\ handler \in Handlers
    /\ reqFile \in BOOLEAN
    /\ GLOBAL_INDEX_ID \in {Null, "idx1"}
    /\ pc = "start" /\ loc = Loc0 /\ call = CallIdle /\ fan = FanIdle
    /\ events = <<>> /\ lateWrites = <<>> /\ ended = FALSE
    /\ fileExists = reqFile      \* multer stored the upload under /tmp
    /\ thrown = NoResult /\ hist = Hist0
    /\ rc = CallIdle /\ rDefault = FALSE /\ rDelay0 = 0
    /\ rInvocations = 0 /\ rSleeps = <<>> /\ rErrors = <<>>
    /\ rAccepted = 0
    /\ IndexIdle
    /\ SignalsIdle

\* The handler issues a remote call.
Issued(h) == [h EXCEPT !.remote = TRUE]

\* An attempt of a remote call of the retry-wrapped pipeline settles: the
\* history counts the rejected attempts (RejectionCap stands for "or more").
Rejected(h, out) ==
    IF out.ok \/ h.rejections = RejectionCap THEN h
    ELSE [h EXCEPT !.rejections = @ + 1]

\* if (!req.file || !GLOBAL_INDEX_ID)
preconditionIgnoresFile(file, gid) == gid = Null

preconditionFails(file, gid) == ~file \/ gid = Null

\* fs.unlink(filePath, () => {}): the file is gone unless the unlink fails;
\* a failure reaches only the empty callback.
unlinkAsync(exists, uok) == exists /\ ~uok

\* The handler goes on: events evs are written to the open stream.
Continue(evs, next, h) ==
    /\ events' = events \o evs
    /\ pc' = next
    /\ hist' = h
    /\ UNCHANGED <<lateWrites, ended, fileExists, thrown>>

\* catch (err) { sendEvent("error", { message: err.message || "Analysis failed" });
\*               res.end(); if (fs.existsSync(filePath)) fs.unlink(filePath, () => {}); }
\* evs are the events the try block wrote in the same step before it threw.
ServerCatch(err, evs, h) ==
    /\ thrown' = err
    /\ events' = events \o evs
                   \o <<ErrorEvent(errMessage(err, "Analysis failed"))>>
    /\ lateWrites' = lateWrites
    /\ ended' = TRUE
    /\ \E uok \in BOOLEAN :
          /\ fileExists' = unlinkAsync(fileExists, uok)
          /\ hist' = [h EXCEPT !.unlinkFailed = @ \/ (fileExists /\ ~uok)]
    /\ pc' = "done"

\* Progress messages and fractions of the two server.js handlers.
scanMessage(h) ==
    IF h = "efficient" THEN "Marengo Vision AI Scanning..."
    ELSE "AI Vision Scanning..."

step2Event(h) ==
    IF h = "efficient" THEN Progress("Measuring Retention Hooks...", F(50))
    ELSE Progress("Extracting Creative DNA...", F(50))

scoringEvents(h) ==
    IF h = "efficient"
    THEN <<Progress("Analyzing Audio Mixing...", F(70)),
           Progress("Calculating Viral Potential...", F(90))>>
    ELSE <<Progress("Calculating Viral Potential...", F(80))>>

-----------------------------------------------------------------------------
(***************************************************************************)
(* The streaming /analyze-video handlers of server.js.                     *)
(***************************************************************************)
\* if (!req.file || !GLOBAL_INDEX_ID) { error event; res.end(); unlink; return }
\* else STEP 1: progress 0.3 and retryApiCall(tasks.create)
ServerEntry ==
    /\ pc = "start" /\ handler \in ServerHandlers
    /\ IF preconditionFails(reqFile, GLOBAL_INDEX_ID)
       THEN /\ events' = events
                \o <<ErrorEvent("System not ready or missing video file")>>
            /\ ended' = TRUE
            /\ \E uok \in BOOLEAN :
                  /\ fileExists' = unlinkAsync(fileExists, uok)
                  /\ hist' = [hist EXCEPT
                                !.unlinkFailed = @ \/ (fileExists /\ ~uok)]
            /\ pc' = "done"
            /\ UNCHANGED <<lateWrites, thrown, call>>
       ELSE /\ Continue(<<Progress(scanMessage(handler), F(30))>>, "create",
                        Issued(hist))
            /\ call' = retryApiCall(DefaultRetries, DefaultDelay)
    /\ UNCHANGED <<handler, reqFile, GLOBAL_INDEX_ID, loc, fan>>
    /\ UNCHANGED rvars
    /\ UNCHANGED ivars
    /\ UNCHANGED svars

\* const task = await retryApiCall(() => tlClient.tasks.create(...))
ServerCreateSettles ==
    /\ pc = "create" /\ call.st = "calling" /\ handler \in ServerHandlers
    /\ \E out \in {Ok("task1")} \cup PipelineErrors :
          LET c1 == retrySettle(call, out) IN
          CASE c1.st = "sleeping" ->
                  /\ call' = c1
                  /\ hist' = Rejected(hist, out)
                  /\ UNCHANGED <<pc, loc, events, lateWrites, ended,
                                 fileExists, thrown>>
            [] c1.st = "thrown" ->
                  /\ call' = CallIdle
                  /\ ServerCatch(c1.res, <<>>, Rejected(hist, out))
                  /\ UNCHANGED loc
            [] c1.st = "returned" ->
                  /\ call' = retryApiCall(DefaultRetries, DefaultDelay)
                  /\ loc' = [loc EXCEPT !.i = 0, !.videoId = Null,
                                        !.pollProgress = F(30)]
                  /\ Continue(<<>>, "poll", hist)
    /\ UNCHANGED <<handler, reqFile, GLOBAL_INDEX_ID, fan>>
    /\ UNCHANGED rvars
    /\ UNCHANGED ivars
    /\ UNCHANGED svars

\* sleep(delay) of the awaited retryApiCall elapses; fn() is invoked again.
CallSleepElapses ==
    /\ pc \in {"create", "poll", "score"} /\ call.st = "sleeping"
    /\ call' = retryRecurse(call)
    /\ UNCHANGED <<handler, reqFile, GLOBAL_INDEX_ID, pc, loc, fan, events,
                   lateWrites, ended, fileExists, thrown, hist>>
    /\ UNCHANGED rvars
    /\ UNCHANGED ivars
    /\ UNCHANGED svars

\* for (let i = 0; i < 60; i++)
pollContinuesOneMore(i) == i <= PollAttempts

pollContinues(i) == i < PollAttempts

\* One iteration of the wait loop: the status of retryApiCall(tasks.retrieve),
\* the ready / failed checks, the cosmetic progress bump and the 2 s sleep;
\* on loop exit, `if (!videoId) throw new Error("Processing timeout")` and
\* STEP 2 (progress 0.5 and the analyze / gist fan-out).
ServerPollSettles ==
    /\ pc = "poll" /\ call.st = "calling" /\ handler \in ServerHandlers
    /\ \E out \in {Ok(s) : s \in TaskStatuses} \cup PipelineErrors :
          LET c1 == retrySettle(call, out)
              st == out.val
              h1 == [Rejected(hist, out) EXCEPT
                       !.ready = @ \/ st = "ready",
                       !.failed = @ \/ st = "failed",
                       !.pending = IF out.ok /\ st \notin {"ready", "failed"}
                                   THEN @ + 1 ELSE @]
              bumped == IF handler = "efficient"
                        THEN pollBump(loc.pollProgress)
                        ELSE loc.pollProgress
              bumpEv == IF bumped # loc.pollProgress
                        THEN <<Progress(scanMessage(handler), bumped)>>
                        ELSE <<>>
          IN
          CASE c1.st = "sleeping" ->
                  /\ call' = c1
                  /\ hist' = h1
                  /\ UNCHANGED <<pc, loc, fan, events, lateWrites, ended,
                                 fileExists, thrown>>
            [] c1.st = "thrown" ->
                  /\ call' = CallIdle
                  /\ ServerCatch(c1.res, <<>>, h1)
                  /\ UNCHANGED <<loc, fan>>
            [] c1.st = "returned" /\ st = "ready" ->
                  /\ call' = CallIdle
                  /\ loc' = [loc EXCEPT !.videoId = "vid1", !.i = 0]
                  /\ fan' = [analyze |-> retryApiCall(DefaultRetries, DefaultDelay),
                             gist |-> retryApiCall(DefaultRetries, DefaultDelay)]
                  /\ Continue(<<step2Event(handler)>>, "fanout", h1)
            [] c1.st = "returned" /\ st = "failed" ->
                  /\ call' = CallIdle
                  /\ ServerCatch(Err(0, "Twelve Labs processing failed"), <<>>, h1)
                  /\ UNCHANGED <<loc, fan>>
            [] c1.st = "returned" /\ st \notin {"ready", "failed"} ->
                  /\ IF pollContinues(loc.i + 1)
                     THEN /\ call' = retryApiCall(DefaultRetries, DefaultDelay)
                          /\ loc' = [loc EXCEPT !.i = @ + 1,
                                                !.pollProgress = bumped]
                          /\ Continue(bumpEv, "poll", h1)
                     ELSE /\ call' = CallIdle
                          /\ loc' = [loc EXCEPT !.i = 0, !.pollProgress = bumped]
                          /\ ServerCatch(Err(0, "Processing timeout"), bumpEv, h1)
                  /\ UNCHANGED fan
    /\ UNCHANGED <<handler, reqFile, GLOBAL_INDEX_ID>>
    /\ UNCHANGED rvars
    /\ UNCHANGED ivars
    /\ UNCHANGED svars

\* Payloads the two fan-out calls can resolve with.
shapesOf(k) == IF k = "analyze" THEN AnalyzeShapes ELSE {"string"}

gistsOf(k) ==
    IF k = "gist" THEN GistResults
    ELSE {[hasHashtags |-> FALSE, hashtags |-> <<>>,
           hasTopics |-> FALSE, topics |-> <<"#t">>]}

\* const sanitizedRaw = rawAnalysisText.replace(...)  throws on a non-string
sanitizeThrows(h, shape) == h = "accordion" /\ ~rawIsString(shape)

\* One attempt of a call under
\*   await Promise.all([retryApiCall(analyze), retryApiCall(gist)])
\* settles.  Promise.all rejects with the first rejection and resolves when
\* both calls have resolved; then STEP 2's normalisation, STEP 3/4's progress
\* events and retryApiCall(generateContent) follow.  A call that settles after
\* the handler has left the fan-out has its result dropped.
ServerFanSettles(k) ==
    /\ handler \in ServerHandlers /\ fan[k].st = "calling"
    /\ \E out \in {Ok("ok")} \cup PipelineErrors,
          shape \in shapesOf(k), g \in gistsOf(k) :
          LET c1 == retrySettle(fan[k], out)
              f1 == [fan EXCEPT ![k] = c1]
              h1 == Rejected(hist, out)
              l1 == IF c1.st # "returned" THEN loc
                    ELSE IF k = "analyze"
                    THEN [loc EXCEPT !.pegasusShape = shape]
                    ELSE [loc EXCEPT !.detectedHashtags = detectedOf(g)]
          IN
          /\ CASE pc # "fanout" ->
                     /\ fan' = f1
                     /\ hist' = h1
                     /\ UNCHANGED <<pc, loc, call, events, lateWrites, ended,
                                 fileExists, thrown>>
               [] pc = "fanout" /\ c1.st = "thrown" ->
                     /\ fan' = f1
                     /\ ServerCatch(c1.res, <<>>, h1)
                     /\ UNCHANGED <<loc, call>>
               [] pc = "fanout" /\ c1.st # "thrown"
                     /\ \E j \in {"analyze", "gist"} : f1[j].st # "returned" ->
                     /\ fan' = f1
                     /\ loc' = l1
                     /\ hist' = h1
                     /\ UNCHANGED <<pc, call, events, lateWrites, ended,
                                    fileExists, thrown>>
               [] pc = "fanout"
                     /\ \A j \in {"analyze", "gist"} : f1[j].st = "returned" ->
                     /\ fan' = FanIdle
                     /\ loc' = [l1 EXCEPT !.pegasusShape = "string"]
                     /\ IF sanitizeThrows(handler, l1.pegasusShape)
                        THEN /\ ServerCatch(
                                  Err(0, "rawAnalysisText.replace is not a function"),
                                  <<>>, h1)
                             /\ UNCHANGED call
                        ELSE /\ Continue(scoringEvents(handler), "score",
                                      [h1 EXCEPT !.rawMismatch =
                                          rawMismatch(l1.pegasusShape)])
                             /\ call' = retryApiCall(DefaultRetries, DefaultDelay)
    /\ UNCHANGED <<handler, reqFile, GLOBAL_INDEX_ID>>
    /\ UNCHANGED rvars
    /\ UNCHANGED ivars
    /\ UNCHANGED svars

\* sleep(delay) of a fan-out call elapses; its fn() is invoked again.
ServerFanSleepElapses(k) ==
    /\ handler \in ServerHandlers /\ fan[k].st = "sleeping"
    /\ fan' = [fan EXCEPT ![k] = retryRecurse(fan[k])]
    /\ UNCHANGED <<handler, reqFile, GLOBAL_INDEX_ID, pc, loc, call, events,
                   lateWrites, ended, fileExists, thrown, hist>>
    /\ UNCHANGED rvars
    /\ UNCHANGED ivars
    /\ UNCHANGED svars

\* The family a scoring response text belongs to (recorded in hist.response).
responseFamily(text) ==
    IF ~jsonParses(cleanJson(text)) THEN "unparseable"
    ELSE LET v == text.json IN
         IF v.kind # "object" THEN v.kind
         ELSE IF ~(v.hasScores /\ v.hasAnalysis /\ v.hasLists /\ v.hasMetadata
                   /\ v.hasCaption /\ v.hasHashtags) THEN "wrongShape"
         ELSE IF \E n \in ScoreNames : n \notin DOMAIN v.scores THEN "missingScore"
         ELSE IF \E n \in ScoreNames : ~(0 <= v.scores[n] /\ v.scores[n] <= 100)
              THEN "outOfRange"
         ELSE "valid"

\* What the scoring response becomes: the report of the complete event, or
\* the error the statements after the inner try throw.
validated(h, text, detected) ==
    IF h = "efficient"
    THEN LET a0 == parseEfficient(text) IN
         IF mergeThrows(a0)
         THEN [ok |-> FALSE, err |-> mergeError(a0), data |-> a0,
               produced |-> 0]
         ELSE [ok |-> TRUE, err |-> NoResult,
               data |-> mergeHashtags(a0, detected),
               produced |-> Len(a0.hashtags)]
    ELSE LET a0 == parseAccordion(text) IN
         [ok |-> TRUE, err |-> NoResult,
          data |-> fillHashtags(a0, detected),
          produced |-> Len(a0.hashtags)]

\* STEP 4/5: retryApiCall(generateContent) settles; the response text is
\* parsed, validated and merged; sendEvent("complete"); res.end(); then
\* tlClient.indexes.videos.delete(GLOBAL_INDEX_ID, videoId) is issued.
ServerScoreSettles ==
    /\ pc = "score" /\ call.st = "calling" /\ handler \in ServerHandlers
    /\ \E out \in {Ok("ok")} \cup PipelineErrors, text \in ScoreTexts :
          LET c1 == retrySettle(call, out)
              v  == validated(handler, text, loc.detectedHashtags)
              h0 == Rejected(hist, out)
              h1 == [hist EXCEPT !.response = responseFamily(text)]
          IN
          /\ call' = IF c1.st = "sleeping" THEN c1 ELSE CallIdle
          /\ CASE c1.st = "sleeping" ->
                     /\ hist' = h0
                     /\ UNCHANGED <<pc, loc, events, lateWrites, ended,
                                    fileExists, thrown>>
               [] c1.st = "thrown" ->
                     /\ ServerCatch(c1.res, <<>>, h0)
                     /\ UNCHANGED loc
               [] c1.st = "returned" /\ ~v.ok ->
                     /\ ServerCatch(v.err, <<>>, h1)
                     /\ UNCHANGED loc
               [] c1.st = "returned" /\ v.ok ->
                     /\ loc' = [loc EXCEPT !.analysisData = v.data,
                                           !.detectedHashtags = <<>>]
                     /\ events' = events \o <<Complete(v.data)>>
                     /\ ended' = TRUE
                     /\ hist' = [h1 EXCEPT
                                   !.deletes = @ + 1,
                                   !.produced = v.produced,
                                   !.detected = Len(loc.detectedHashtags)]
                     /\ pc' = "cleanup"
                     /\ UNCHANGED <<lateWrites, fileExists, thrown>>
    /\ UNCHANGED <<handler, reqFile, GLOBAL_INDEX_ID, fan>>
    /\ UNCHANGED rvars
    /\ UNCHANGED ivars
    /\ UNCHANGED svars

\* try { await tlClient.indexes.videos.delete(...) } catch (e) {}
\* fs.unlink(filePath, () => {})
\* A rejected delete is swallowed by the empty catch; the unlink follows in
\* either case.
cleanupSkipsOnFailure(exists, deleted, uok) ==
    IF deleted THEN unlinkAsync(exists, uok) ELSE exists

cleanupLeaves(exists, deleted, uok) == unlinkAsync(exists, uok)

ServerCleanupSettles ==
    /\ pc = "cleanup" /\ handler \in ServerHandlers
    /\ \E deleted \in BOOLEAN, uok \in BOOLEAN :
          /\ fileExists' = cleanupLeaves(fileExists, deleted, uok)
          /\ hist' = [Rejected(hist, [ok |-> deleted]) EXCEPT
                        !.unlinkFailed = @ \/ (fileExists /\ ~uok),
                        !.deleteFailed = ~deleted]
    /\ pc' = "done"
    /\ UNCHANGED <<handler, reqFile, GLOBAL_INDEX_ID, loc, call, fan, events,
                   lateWrites, ended, thrown>>
    /\ UNCHANGED rvars
    /\ UNCHANGED ivars
    /\ UNCHANGED svars

-----------------------------------------------------------------------------
(***************************************************************************)
(* The Gemini File-API streaming handlers: "gemini" streams the generation *)
(* (generateContentStream), "gemini25" awaits generateContent.             *)
(***************************************************************************)
FileStates == {"PROCESSING", "ACTIVE", "FAILED"}

\* Texts the generation can produce: what JSON.parse makes of them.
GeminiTexts ==
    {[fenced |-> FALSE, parses |-> FALSE, json |-> EmptyObject],
     [fenced |-> TRUE, parses |-> TRUE, json |-> EmptyObject],
     [fenced |-> FALSE, parses |-> TRUE, json |-> JsonNull],
     [fenced |-> FALSE, parses |-> TRUE, json |-> EmptyObject]}
    \cup {[fenced |-> FALSE, parses |-> TRUE, json |-> r] : r \in TypicalReports}

\* fs.unlinkSync(filePath) behind  filePath && fs.existsSync(filePath):
\* the file is gone, or the call throws and the file stays.
unlinkSyncLeaves(exists, uok) == exists /\ ~uok

\* catch (err) { sendEvent("error", { message: err.message || "Internal Server Error" });
\*               res.end(); if (filePath && fs.existsSync(filePath)) fs.unlinkSync(filePath); }
\* reached while the stream is still open.
GeminiCatch(err, evs, h) ==
    /\ thrown' = err
    /\ events' = events \o evs
                   \o <<ErrorEvent(errMessage(err, "Internal Server Error"))>>
    /\ lateWrites' = lateWrites
    /\ ended' = TRUE
    /\ \E uok \in BOOLEAN :
          /\ fileExists' = unlinkSyncLeaves(fileExists, uok)
          /\ hist' = [h EXCEPT !.unlinkFailed = @ \/ (fileExists /\ ~uok)]
    /\ pc' = "done"

\* sendEvent("complete", { result: finalJson }); res.end();
\* if (filePath && fs.existsSync(filePath)) fs.unlinkSync(filePath);
\* An unlinkSync that throws here is caught by the handler's catch block,
\* which calls sendEvent and res.end() on the ended response and tries the
\* unlink once more.
GeminiComplete(json, h) ==
    /\ events' = events \o <<Complete(json)>>
    /\ ended' = TRUE
    /\ pc' = "done"
    /\ \E uok \in BOOLEAN, uok2 \in BOOLEAN :
          IF fileExists /\ ~uok
          THEN /\ thrown' = Err(0, "EPERM: operation not permitted, unlink")
               /\ lateWrites' = lateWrites \o
                     <<ErrorEvent(errMessage(thrown', "Internal Server Error"))>>
               /\ fileExists' = unlinkSyncLeaves(fileExists, uok2)
               /\ hist' = [h EXCEPT !.unlinkFailed = TRUE]
          ELSE /\ fileExists' = FALSE
               /\ hist' = h
               /\ UNCHANGED <<thrown, lateWrites>>

\* if (!req.file || !filePath) { error event; res.end(); return }
\* try { parse inputs (customMetrics.length throws on a metric_context that
\* parses to null); first progress event; fileManager.uploadFile(...)
GeminiEntry ==
    /\ pc = "start" /\ handler \in GeminiHandlers
    /\ IF ~reqFile
       THEN /\ events' = events \o <<ErrorEvent("Missing video file")>>
            /\ ended' = TRUE
            /\ pc' = "done"
            /\ UNCHANGED <<lateWrites, fileExists, thrown, hist>>
       ELSE \E metricContext \in {"absent", "array", "null"} :
               IF metricContext = "null"
               THEN GeminiCatch(
                       Err(0, "Cannot read properties of null (reading 'length')"),
                       <<>>, hist)
               ELSE Continue(
                       <<IF handler = "gemini"
                         THEN Progress("Sending to AI Engine...", F(10))
                         ELSE Progress("Uploading to Gemini 2.5...", F(20))>>,
                       "g_upload", Issued(hist))
    /\ UNCHANGED <<handler, reqFile, GLOBAL_INDEX_ID, loc, call, fan>>
    /\ UNCHANGED rvars
    /\ UNCHANGED ivars
    /\ UNCHANGED svars

\* const uploadResult = await fileManager.uploadFile(...);
\* let fileState = uploadResult.file.state; progress event before the loop
GeminiUploadSettles ==
    /\ pc = "g_upload" /\ handler \in GeminiHandlers
    /\ \E out \in {Ok(fs) : fs \in FileStates} \cup PipelineErrors :
          IF out.ok
          THEN /\ loc' = [loc EXCEPT !.fileState = out.val,
                                     !.processingProgress = F(20)]
               /\ Continue(
                     <<IF handler = "gemini"
                       THEN Progress("AI is watching video...", F(20))
                       ELSE Progress("Processing video frames...", F(40))>>,
                     "g_wait", hist)
          ELSE /\ GeminiCatch(out, <<>>, hist)
               /\ UNCHANGED loc
    /\ UNCHANGED <<handler, reqFile, GLOBAL_INDEX_ID, call, fan>>
    /\ UNCHANGED rvars
    /\ UNCHANGED ivars
    /\ UNCHANGED svars

\* while (fileState === FileState.PROCESSING)
stillProcessing(fs) == fs = "PROCESSING"

\* One iteration of the wait loop: sleep(2000), the cosmetic bump ("gemini"),
\* fileManager.getFile(fileName) and the FAILED check.
GeminiWaitStep ==
    /\ pc = "g_wait" /\ handler \in GeminiHandlers
    /\ stillProcessing(loc.fileState)
    /\ \E out \in {Ok(fs) : fs \in FileStates} \cup PipelineErrors :
          LET bumped == IF handler = "gemini"
                        THEN processingBump(loc.processingProgress)
                        ELSE loc.processingProgress
              bumpEv == IF bumped # loc.processingProgress
                        THEN <<Progress("AI is processing frames...",
                                        toFixed2(bumped))>>
                        ELSE <<>>
              h1 == [hist EXCEPT !.gPolls = @ + 1]
          IN
          /\ (out.ok /\ out.val = "PROCESSING") => hist.gPolls < MaxGeminiPolls
          /\ IF ~out.ok
             THEN /\ GeminiCatch(out, bumpEv, h1)
                  /\ loc' = [loc EXCEPT !.processingProgress = bumped]
             ELSE IF out.val = "FAILED"
             THEN /\ GeminiCatch(
                        Err(0, "Video processing failed on Gemini servers."),
                        bumpEv, h1)
                  /\ loc' = [loc EXCEPT !.processingProgress = bumped,
                                        !.fileState = out.val]
             ELSE /\ Continue(bumpEv, "g_wait", h1)
                  /\ loc' = [loc EXCEPT !.processingProgress = bumped,
                                        !.fileState = out.val]
    /\ UNCHANGED <<handler, reqFile, GLOBAL_INDEX_ID, call, fan>>
    /\ UNCHANGED rvars
    /\ UNCHANGED ivars
    /\ UNCHANGED svars

\* The loop is left: progress event, prompt, and the generation call is issued.
GeminiGenerate ==
    /\ pc = "g_wait" /\ handler \in GeminiHandlers
    /\ ~stillProcessing(loc.fileState)
    /\ Continue(
          <<IF handler = "gemini"
            THEN Progress("Drafting analysis...", F(65))
            ELSE Progress("Analyzing with Gemini 2.5...", F(70))>>,
          "g_gen", hist)
    /\ UNCHANGED <<handler, reqFile, GLOBAL_INDEX_ID, loc, call, fan>>
    /\ UNCHANGED rvars
    /\ UNCHANGED ivars
    /\ UNCHANGED svars

\* JSON.parse(text) of the Gemini handlers (no fence stripping)
geminiParses(text) == jsonParses(text)

\* "gemini":   await model.generateContentStream(...) settles
\* "gemini25": await model.generateContent(...) settles; JSON.parse; complete
GeminiGenSettles ==
    /\ pc = "g_gen" /\ handler \in GeminiHandlers
    /\ \E out \in {Ok("ok")} \cup PipelineErrors, text \in GeminiTexts :
          IF ~out.ok
          THEN /\ GeminiCatch(out, <<>>, hist)
               /\ UNCHANGED loc
          ELSE IF handler = "gemini"
          THEN /\ loc' = [loc EXCEPT !.chunkCount = 0,
                                     !.generationProgress = F(70)]
               /\ Continue(<<>>, "g_stream", hist)
          ELSE IF geminiParses(text)
          THEN /\ GeminiComplete(text.json, hist)
               /\ UNCHANGED loc
          ELSE /\ GeminiCatch(Err(0, "Unexpected token in JSON"), <<>>, hist)
               /\ UNCHANGED loc
    /\ UNCHANGED <<handler, reqFile, GLOBAL_INDEX_ID, call, fan>>
    /\ UNCHANGED rvars
    /\ UNCHANGED ivars
    /\ UNCHANGED svars

\* for await (const chunk of resultStream.stream): one chunk arrives
GeminiChunk ==
    /\ pc = "g_stream" /\ handler = "gemini"
    /\ loc.chunkCount < MaxChunks
    /\ LET n == loc.chunkCount + 1
           bumped == generationBump(n, loc.generationProgress)
       IN /\ loc' = [loc EXCEPT !.chunkCount = n, !.generationProgress = bumped]
          /\ Continue(
                IF bumped # loc.generationProgress
                THEN <<Progress("Generating insights...", toFixed2(bumped))>>
                ELSE <<>>,
                "g_stream", hist)
    /\ UNCHANGED <<handler, reqFile, GLOBAL_INDEX_ID, call, fan>>
    /\ UNCHANGED rvars
    /\ UNCHANGED ivars
    /\ UNCHANGED svars

\* The stream rejects, or it ends: JSON.parse(fullResponseText); complete.
GeminiStreamEnds ==
    /\ pc = "g_stream" /\ handler = "gemini"
    /\ \E out \in {Ok("ok")} \cup PipelineErrors, text \in GeminiTexts :
          IF ~out.ok
          THEN GeminiCatch(out, <<>>, hist)
          ELSE IF geminiParses(text)
          THEN GeminiComplete(text.json, hist)
          ELSE GeminiCatch(Err(0, "Unexpected token in JSON"), <<>>, hist)
    /\ loc' = [loc EXCEPT !.chunkCount = 0, !.generationProgress = F(70)]
    /\ UNCHANGED <<handler, reqFile, GLOBAL_INDEX_ID, call, fan>>
    /\ UNCHANGED rvars
    /\ UNCHANGED ivars
    /\ UNCHANGED svars

GeminiNext ==
    \/ GeminiEntry
    \/ GeminiUploadSettles
    \/ GeminiWaitStep
    \/ GeminiGenerate
    \/ GeminiGenSettles
    \/ GeminiChunk
    \/ GeminiStreamEnds

-----------------------------------------------------------------------------
(***************************************************************************)
(* The hybrid-niche handler: no retry wrapper, one JSON response.          *)
(***************************************************************************)
\* catch (error) { if (fs.existsSync(filePath)) fs.unlink(filePath, () => {});
\*                 res.status(500).json({ error: error.message || "Internal Server Error" }) }
HybridCatch(err, h) ==
    /\ thrown' = err
    /\ events' = events
                   \o <<JsonError(500, errMessage(err, "Internal Server Error"))>>
    /\ lateWrites' = lateWrites
    /\ ended' = TRUE
    /\ \E uok \in BOOLEAN :
          /\ fileExists' = unlinkAsync(fileExists, uok)
          /\ hist' = [h EXCEPT !.unlinkFailed = @ \/ (fileExists /\ ~uok)]
    /\ pc' = "done"

\* The audience field of the request body; "" stands for a field that is
\* absent or empty.
Audiences == {"", "Fitness", "General", "unknown"}

\* The niches the classification prompt can answer with.
Niches == {"Fitness", "General"}

\* audience.toLowerCase()
toLowerCase(a) ==
    CASE a = "General" -> "general"
      [] a = "Fitness" -> "fitness"
      [] OTHER -> a

\* const isUserProvided = audience && audience.trim() !== "" &&
\*   audience.toLowerCase() !== "general" && audience.toLowerCase() !== "unknown"
isUserProvided(a) ==
    /\ a # ""
    /\ toLowerCase(a) # "general"
    /\ toLowerCase(a) # "unknown"

\* detectVideoNiche: the trimmed answer, or "General" when the call fails
detectVideoNiche(out, detected) == IF out.ok THEN detected ELSE "General"

\* if (!req.file || !GLOBAL_INDEX_ID) return res.status(400).json(...)
\* let { audience, platform } = req.body
\* try { const task = await client.tasks.create(...)
HybridEntry ==
    /\ pc = "start" /\ handler = "hybrid"
    /\ IF ~reqFile \/ GLOBAL_INDEX_ID = Null
       THEN /\ events' = events \o <<JsonError(400, "System not ready")>>
            /\ ended' = TRUE
            /\ pc' = "done"
            /\ UNCHANGED <<lateWrites, fileExists, thrown, hist, loc>>
       ELSE \E a \in Audiences :
               /\ loc' = [loc EXCEPT !.audience = a]
               /\ Continue(<<>>, "h_create",
                           [Issued(hist) EXCEPT !.callerAudience = a])
    /\ UNCHANGED <<handler, reqFile, GLOBAL_INDEX_ID, call, fan>>
    /\ UNCHANGED rvars
    /\ UNCHANGED ivars
    /\ UNCHANGED svars

HybridCreateSettles ==
    /\ pc = "h_create" /\ handler = "hybrid"
    /\ \E out \in {Ok("task1")} \cup PipelineErrors :
          IF out.ok
          THEN /\ loc' = [loc EXCEPT !.i = 0, !.videoId = Null]
               /\ Continue(<<>>, "h_poll", hist)
          ELSE /\ HybridCatch(out, hist)
               /\ UNCHANGED loc
    /\ UNCHANGED <<handler, reqFile, GLOBAL_INDEX_ID, call, fan>>
    /\ UNCHANGED rvars
    /\ UNCHANGED ivars
    /\ UNCHANGED svars

\* while (attempts < 60)
hybridContinues(attempts) == attempts < PollAttempts

\* One iteration of the wait loop; on exit the timeout check and the
\* hybrid niche logic (detectVideoNiche unless the caller named a niche).
HybridPollSettles ==
    /\ pc = "h_poll" /\ handler = "hybrid"
    /\ \E out \in {Ok(s) : s \in TaskStatuses} \cup PipelineErrors :
          LET st == out.val
              h1 == [hist EXCEPT
                       !.ready = @ \/ st = "ready",
                       !.failed = @ \/ st = "failed",
                       !.pending = IF out.ok /\ st \notin {"ready", "failed"}
                                   THEN @ + 1 ELSE @]
          IN
          CASE ~out.ok ->
                  /\ HybridCatch(out, hist)
                  /\ UNCHANGED loc
            [] out.ok /\ st = "ready" ->
                  /\ loc' = [loc EXCEPT !.videoId = "vid1", !.i = 0]
                  /\ IF isUserProvided(loc.audience)
                     THEN Continue(<<>>, "h_analyze", h1)
                     ELSE Continue(<<>>, "h_niche",
                                   [h1 EXCEPT !.nicheCalled = TRUE])
            [] out.ok /\ st = "failed" ->
                  /\ HybridCatch(Err(0, "Processing failed: Unknown error"), h1)
                  /\ UNCHANGED loc
            [] out.ok /\ st \notin {"ready", "failed"} ->
                  IF hybridContinues(loc.i + 1)
                  THEN /\ loc' = [loc EXCEPT !.i = @ + 1]
                       /\ Continue(<<>>, "h_poll", h1)
                  ELSE /\ loc' = [loc EXCEPT !.i = 0]
                       /\ HybridCatch(Err(0, "Processing Timeout"), h1)
    /\ UNCHANGED <<handler, reqFile, GLOBAL_INDEX_ID, call, fan>>
    /\ UNCHANGED rvars
    /\ UNCHANGED ivars
    /\ UNCHANGED svars

\* audience = await detectVideoNiche(videoId): its own try/catch turns a
\* failure into "General"; then client.analyze(...) is issued.
HybridNicheSettles ==
    /\ pc = "h_niche" /\ handler = "hybrid"
    /\ \E out \in {Ok("ok")} \cup PipelineErrors, detected \in Niches :
          /\ loc' = [loc EXCEPT !.audience = detectVideoNiche(out, detected)]
          /\ Continue(<<>>, "h_analyze", hist)
    /\ UNCHANGED <<handler, reqFile, GLOBAL_INDEX_ID, call, fan>>
    /\ UNCHANGED rvars
    /\ UNCHANGED ivars
    /\ UNCHANGED svars

\* analysisData.detectedAudience = audience  cannot be done on null or on a
\* primitive (module code is strict)
hybridAssignThrows(json) == json.kind # "object"

\* const result = await client.analyze(...); strip fences; JSON.parse or
\* throw "AI generated invalid format"; set detectedAudience; issue gist.
HybridAnalyzeSettles ==
    /\ pc = "h_analyze" /\ handler = "hybrid"
    /\ \E out \in {Ok("ok")} \cup PipelineErrors, text \in GeminiTexts :
          IF ~out.ok
          THEN /\ HybridCatch(out, hist)
               /\ UNCHANGED loc
          ELSE IF ~jsonParses(cleanJson(text))
          THEN /\ HybridCatch(
                     Err(0, "AI generated invalid format. Please try again."),
                     hist)
               /\ UNCHANGED loc
          ELSE IF hybridAssignThrows(text.json)
          THEN /\ HybridCatch(
                     Err(0, "Cannot set properties of null (setting 'detectedAudience')"),
                     hist)
               /\ UNCHANGED loc
          ELSE /\ loc' = [loc EXCEPT !.analysisData = text.json]
               /\ Continue(<<>>, "h_gist", hist)
    /\ UNCHANGED <<handler, reqFile, GLOBAL_INDEX_ID, call, fan>>
    /\ UNCHANGED rvars
    /\ UNCHANGED ivars
    /\ UNCHANGED svars

\* try { gistResult = await client.gist(...); hashtags / topics }
\* catch (err) { analysisData.hashtags = [] }
\* fs.unlink(filePath, () => {}); res.json(analysisData)
HybridGistSettles ==
    /\ pc = "h_gist" /\ handler = "hybrid"
    /\ \E out \in {Ok("ok")} \cup PipelineErrors, g \in GistResults,
          uok \in BOOLEAN :
          LET tags == IF out.ok /\ g.hasHashtags THEN g.hashtags ELSE <<>>
              body == [loc.analysisData EXCEPT !.hasHashtags = TRUE,
                                               !.hashtags = tags]
          IN
          /\ events' = events \o <<Json(200, body)>>
          /\ loc' = [loc EXCEPT !.analysisData = body]
          /\ fileExists' = unlinkAsync(fileExists, uok)
          /\ hist' = [hist EXCEPT !.unlinkFailed = @ \/ (fileExists /\ ~uok)]
    /\ ended' = TRUE
    /\ pc' = "done"
    /\ UNCHANGED <<handler, reqFile, GLOBAL_INDEX_ID, call, fan, lateWrites,
                   thrown>>
    /\ UNCHANGED rvars
    /\ UNCHANGED ivars
    /\ UNCHANGED svars

HybridNext ==
    \/ HybridEntry
    \/ HybridCreateSettles
    \/ HybridPollSettles
    \/ HybridNicheSettles
    \/ HybridAnalyzeSettles
    \/ HybridGistSettles

-----------------------------------------------------------------------------
(***************************************************************************)
(* The roast handler: Marengo searches, then Pegasus, one JSON response.   *)
(***************************************************************************)
\* catch (error) { console.error(error);
\*                 res.status(500).json({ error: "Analysis failed" }) }
RoastCatch(err, h) ==
    /\ thrown' = err
    /\ events' = events \o <<JsonError(500, "Analysis failed")>>
    /\ lateWrites' = lateWrites
    /\ ended' = TRUE
    /\ fileExists' = fileExists
    /\ hist' = h
    /\ pc' = "done"

\* if (!req.file || !GLOBAL_INDEX_ID) return res.status(400).json(...)
\* try { const task = await client.task.create(...)
RoastEntry ==
    /\ pc = "start" /\ handler = "roast"
    /\ IF ~reqFile \/ GLOBAL_INDEX_ID = Null
       THEN /\ events' = events \o <<JsonError(400, "System not ready")>>
            /\ ended' = TRUE
            /\ pc' = "done"
            /\ UNCHANGED <<lateWrites, fileExists, thrown, hist>>
       ELSE Continue(<<>>, "r_create", Issued(hist))
    /\ UNCHANGED <<handler, reqFile, GLOBAL_INDEX_ID, loc, call, fan>>
    /\ UNCHANGED rvars
    /\ UNCHANGED ivars
    /\ UNCHANGED svars

\* The sequential awaits of the roast handler, none of them retried:
\*   r_create   client.task.create
\*   r_wait     task.waitForDone({ sleepInterval: 2000 })
\*   r_analyze  client.analyze
\*   r_gist     client.generate.gist
roastAfter(at) ==
    CASE at = "r_create" -> "r_wait"
      [] at = "r_wait" -> "r_search"
      [] at = "r_analyze" -> "r_gist"

\* task.waitForDone resolves once the task has left the indexing states, in
\* state ready or failed; the handler reads task.videoId without looking at
\* the status, and a failed task has none.
waitedVideoId(status) == IF status = "ready" THEN "vid1" ELSE Null

RoastAwaitSettles ==
    /\ pc \in {"r_create", "r_wait", "r_analyze"} /\ handler = "roast"
    /\ \E out \in {Ok("ready"), Ok("failed")} \cup PipelineErrors :
          IF ~out.ok
          THEN /\ RoastCatch(out, hist)
               /\ UNCHANGED <<loc, fan>>
          ELSE /\ Continue(<<>>, roastAfter(pc),
                           IF pc = "r_wait"
                           THEN [hist EXCEPT !.ready = out.val = "ready",
                                             !.failed = out.val = "failed"]
                           ELSE hist)
               /\ loc' = IF pc = "r_wait"
                         THEN [loc EXCEPT !.videoId = waitedVideoId(out.val)]
                         ELSE loc
               /\ fan' = IF pc = "r_wait"
                         THEN [faceSearch |-> "calling", textSearch |-> "calling"]
                         ELSE fan
    /\ UNCHANGED <<handler, reqFile, GLOBAL_INDEX_ID, call>>
    /\ UNCHANGED rvars
    /\ UNCHANGED ivars
    /\ UNCHANGED svars

Min(a, b) == IF a <= b THEN a ELSE b

RoastPageLimit == 5

\* What the search service returns for a query: the matching clips of the
\* video named in filter.id when the query carries that filter, the matching
\* clips of every video of the index otherwise; at most pageLimit of them.
\* own / other are the numbers of matching clips of the run's video and of
\* the other videos of the shared index.
searchData(filtered, own, other, pageLimit) ==
    Min(pageLimit, IF filtered THEN own ELSE own + other)

\* client.search.query({ indexId, queryText, searchOptions, pageLimit: 5 })
roastQueryFiltered == FALSE

\* One of  Promise.all([search.query(face), search.query(text)])  settles;
\* evidence = { faceCount: faceSearch.data.length, textCount: ... }.
RoastSearchSettles(k) ==
    /\ handler = "roast" /\ pc \in {"r_search", "done"}
    /\ DOMAIN fan = {"faceSearch", "textSearch"}
    /\ fan[k] = "calling"
    /\ \E out \in {Ok("ok")} \cup PipelineErrors,
          own \in 0..MaxClips, other \in 0..MaxClips :
          LET f1 == [fan EXCEPT ![k] = IF out.ok THEN "returned" ELSE "thrown"]
              count == searchData(roastQueryFiltered, own, other, RoastPageLimit)
              h1 == [hist EXCEPT !.foreign =
                        @ \/ count # Min(RoastPageLimit, own)]
          IN
          CASE pc = "done" ->
                  /\ fan' = f1
                  /\ UNCHANGED <<pc, events, lateWrites, ended, fileExists,
                                 thrown, hist>>
            [] pc = "r_search" /\ ~out.ok ->
                  /\ fan' = f1
                  /\ RoastCatch(out, hist)
            [] pc = "r_search" /\ out.ok
                  /\ \E j \in DOMAIN f1 : f1[j] # "returned" ->
                  /\ fan' = f1
                  /\ hist' = h1
                  /\ UNCHANGED <<pc, events, lateWrites, ended, fileExists,
                                 thrown>>
            [] pc = "r_search" /\ out.ok
                  /\ \A j \in DOMAIN f1 : f1[j] = "returned" ->
                  /\ fan' = FanIdle
                  /\ Continue(<<>>, "r_analyze", h1)
    /\ UNCHANGED <<handler, reqFile, GLOBAL_INDEX_ID, loc, call>>
    /\ UNCHANGED rvars
    /\ UNCHANGED ivars
    /\ UNCHANGED svars

\* const gist = await client.generate.gist(...);
\* let result = JSON.parse(analysis.data.replace(/```json|```/g, "").trim());
\* result.hashtags = gist.hashtags; fs.unlinkSync(filePath); res.json(result)
RoastGistSettles ==
    /\ pc = "r_gist" /\ handler = "roast"
    /\ \E out \in {Ok("ok")} \cup PipelineErrors, text \in GeminiTexts,
          g \in GistResults, uok \in BOOLEAN :
          LET body == [text.json EXCEPT !.hasHashtags = g.hasHashtags,
                                        !.hashtags = g.hashtags]
          IN
          IF ~out.ok
          THEN RoastCatch(out, hist)
          ELSE IF ~jsonParses(cleanJson(text))
          THEN RoastCatch(Err(0, "Unexpected token in JSON"), hist)
          ELSE IF text.json.kind # "object"
          THEN RoastCatch(
                  Err(0, "Cannot set properties of null (setting 'hashtags')"),
                  hist)
          ELSE IF ~uok
          THEN RoastCatch(Err(0, "EPERM: operation not permitted, unlink"),
                          [hist EXCEPT !.unlinkFailed = TRUE])
          ELSE /\ events' = events \o <<Json(200, body)>>
               /\ ended' = TRUE
               /\ fileExists' = FALSE
               /\ pc' = "done"
               /\ UNCHANGED <<lateWrites, thrown, hist>>
    /\ UNCHANGED <<handler, reqFile, GLOBAL_INDEX_ID, loc, call, fan>>
    /\ UNCHANGED rvars
    /\ UNCHANGED ivars
    /\ UNCHANGED svars

RoastNext ==
    \/ RoastEntry
    \/ RoastAwaitSettles
    \/ \E k \in {"faceSearch", "textSearch"} : RoastSearchSettles(k)
    \/ RoastGistSettles

-----------------------------------------------------------------------------
(***************************************************************************)
(* The Pegasus handler: three analyze passes and gist under one            *)
(* Promise.all, no retry wrapper, one JSON response sent after the remote  *)
(* video delete has been awaited.                                          *)
(***************************************************************************)
PegasusCalls == {"narrative", "technical", "visual", "gist"}

\* catch (err) { if (fs.existsSync(filePath)) fs.unlink(filePath, () => {});
\*               res.status(500).json({ error: err.message || "Internal server error" }) }
PegasusCatch(err, h) ==
    /\ thrown' = err
    /\ events' = events
                   \o <<JsonError(500, errMessage(err, "Internal server error"))>>
    /\ lateWrites' = lateWrites
    /\ ended' = TRUE
    /\ \E uok \in BOOLEAN :
          /\ fileExists' = unlinkAsync(fileExists, uok)
          /\ hist' = [h EXCEPT !.unlinkFailed = @ \/ (fileExists /\ ~uok)]
    /\ pc' = "done"

\* if (!req.file || !GLOBAL_INDEX_ID) return res.status(400).json(...)
\* try { const task = await tlClient.tasks.create(...)
PegasusEntry ==
    /\ pc = "start" /\ handler = "pegasus"
    /\ IF preconditionFails(reqFile, GLOBAL_INDEX_ID)
       THEN /\ events' = events
                \o <<JsonError(400, "System not ready or missing video file")>>
            /\ ended' = TRUE
            /\ pc' = "done"
            /\ UNCHANGED <<lateWrites, fileExists, thrown, hist>>
       ELSE Continue(<<>>, "p_create", Issued(hist))
    /\ UNCHANGED <<handler, reqFile, GLOBAL_INDEX_ID, loc, call, fan>>
    /\ UNCHANGED rvars
    /\ UNCHANGED ivars
    /\ UNCHANGED svars

PegasusCreateSettles ==
    /\ pc = "p_create" /\ handler = "pegasus"
    /\ \E out \in {Ok("task1")} \cup PipelineErrors :
          IF out.ok
          THEN /\ loc' = [loc EXCEPT !.i = 0, !.videoId = Null]
               /\ Continue(<<>>, "p_poll", hist)
          ELSE /\ PegasusCatch(out, hist)
               /\ UNCHANGED loc
    /\ UNCHANGED <<handler, reqFile, GLOBAL_INDEX_ID, call, fan>>
    /\ UNCHANGED rvars
    /\ UNCHANGED ivars
    /\ UNCHANGED svars

\* for (let i = 0; i < 60; i++) { status = await tlClient.tasks.retrieve(task.id) ... }
\* if (!videoId) throw new Error("Processing timeout"); then the four calls
\* of STEP A are issued under Promise.all.
PegasusPollSettles ==
    /\ pc = "p_poll" /\ handler = "pegasus"
    /\ \E out \in {Ok(s) : s \in TaskStatuses} \cup PipelineErrors :
          LET st == out.val
              h1 == [hist EXCEPT
                       !.ready = @ \/ st = "ready",
                       !.failed = @ \/ st = "failed",
                       !.pending = IF out.ok /\ st \notin {"ready", "failed"}
                                   THEN @ + 1 ELSE @]
          IN
          CASE ~out.ok ->
                  /\ PegasusCatch(out, hist)
                  /\ UNCHANGED <<loc, fan>>
            [] out.ok /\ st = "ready" ->
                  /\ loc' = [loc EXCEPT !.videoId = "vid1", !.i = 0]
                  /\ fan' = [k \in PegasusCalls |-> "calling"]
                  /\ Continue(<<>>, "p_fan", h1)
            [] out.ok /\ st = "failed" ->
                  /\ PegasusCatch(Err(0, "Twelve Labs processing failed"), h1)
                  /\ UNCHANGED <<loc, fan>>
            [] out.ok /\ st \notin {"ready", "failed"} ->
                  /\ IF pollContinues(loc.i + 1)
                     THEN /\ loc' = [loc EXCEPT !.i = @ + 1]
                          /\ Continue(<<>>, "p_poll", h1)
                     ELSE /\ loc' = [loc EXCEPT !.i = 0]
                          /\ PegasusCatch(Err(0, "Processing timeout"), h1)
                  /\ UNCHANGED fan
    /\ UNCHANGED <<handler, reqFile, GLOBAL_INDEX_ID, call>>
    /\ UNCHANGED rvars
    /\ UNCHANGED ivars
    /\ UNCHANGED svars

\* One call of  Promise.all([analyze, analyze, analyze, gist])  settles; when
\* all four have resolved, the prompt is built and generateContent is issued.
PegasusFanSettles(k) ==
    /\ handler = "pegasus" /\ pc \in {"p_fan", "done"}
    /\ DOMAIN fan = PegasusCalls
    /\ fan[k] = "calling"
    /\ \E out \in {Ok("ok")} \cup PipelineErrors :
          LET f1 == [fan EXCEPT ![k] = IF out.ok THEN "returned" ELSE "thrown"]
          IN
          CASE pc = "done" ->
                  /\ fan' = f1
                  /\ UNCHANGED <<pc, loc, events, lateWrites, ended, fileExists,
                                 thrown, hist>>
            [] pc = "p_fan" /\ ~out.ok ->
                  /\ fan' = f1
                  /\ PegasusCatch(out, hist)
                  /\ UNCHANGED loc
            [] pc = "p_fan" /\ out.ok
                  /\ \E j \in DOMAIN f1 : f1[j] # "returned" ->
                  /\ fan' = f1
                  /\ UNCHANGED <<pc, loc, events, lateWrites, ended, fileExists,
                                 thrown, hist>>
            [] pc = "p_fan" /\ out.ok
                  /\ \A j \in DOMAIN f1 : f1[j] = "returned" ->
                  /\ fan' = FanIdle
                  /\ \E g \in GistResults :
                        loc' = [loc EXCEPT !.detectedHashtags = detectedOf(g)]
                  /\ Continue(<<>>, "p_score", hist)
    /\ UNCHANGED <<handler, reqFile, GLOBAL_INDEX_ID, call>>
    /\ UNCHANGED rvars
    /\ UNCHANGED ivars
    /\ UNCHANGED svars

\* The merge assigns analysisData.metadata.hashtags without creating metadata.
pegasusMergeThrows(a) == a.kind = "null" \/ (needsMerge(a) /\ ~a.hasMetadata)

pegasusMergeError(a) ==
    IF a.kind = "null"
    THEN Err(0, "Cannot read properties of null (reading 'metadata')")
    ELSE Err(0, "Cannot set properties of undefined (setting 'hashtags')")

\* const result = await geminiModel.generateContent(geminiPrompt);
\* JSON.parse(cleanJson); hashtag merge; then
\* try { await tlClient.indexes.videos.delete(GLOBAL_INDEX_ID, videoId) ...
PegasusScoreSettles ==
    /\ pc = "p_score" /\ handler = "pegasus"
    /\ \E out \in {Ok("ok")} \cup PipelineErrors, text \in GeminiTexts :
          IF ~out.ok
          THEN /\ PegasusCatch(out, hist)
               /\ UNCHANGED loc
          ELSE IF ~jsonParses(cleanJson(text))
          THEN /\ PegasusCatch(Err(0, "Unexpected token in JSON"), hist)
               /\ UNCHANGED loc
          ELSE IF pegasusMergeThrows(text.json)
          THEN /\ PegasusCatch(pegasusMergeError(text.json), hist)
               /\ UNCHANGED loc
          ELSE /\ loc' = [loc EXCEPT
                            !.analysisData =
                                mergeHashtags(text.json, loc.detectedHashtags),
                            !.detectedHashtags = <<>>]
               /\ Continue(<<>>, "p_delete", [hist EXCEPT !.deletes = @ + 1])
    /\ UNCHANGED <<handler, reqFile, GLOBAL_INDEX_ID, call, fan>>
    /\ UNCHANGED rvars
    /\ UNCHANGED ivars
    /\ UNCHANGED svars

\* ... } catch (cleanupErr) { console.warn(...) }
\* fs.unlink(filePath, () => {}); res.json(analysisData)
PegasusDeleteSettles ==
    /\ pc = "p_delete" /\ handler = "pegasus"
    /\ \E deleted \in BOOLEAN, uok \in BOOLEAN :
          /\ fileExists' = cleanupLeaves(fileExists, deleted, uok)
          /\ hist' = [hist EXCEPT !.unlinkFailed = @ \/ (fileExists /\ ~uok),
                                  !.deleteFailed = ~deleted]
    /\ events' = events \o <<Json(200, loc.analysisData)>>
    /\ ended' = TRUE
    /\ pc' = "done"
    /\ UNCHANGED <<handler, reqFile, GLOBAL_INDEX_ID, loc, call, fan,
                   lateWrites, thrown>>
    /\ UNCHANGED rvars
    /\ UNCHANGED ivars
    /\ UNCHANGED svars

PegasusNext ==
    \/ PegasusEntry
    \/ PegasusCreateSettles
    \/ PegasusPollSettles
    \/ \E k \in PegasusCalls : PegasusFanSettles(k)
    \/ PegasusScoreSettles
    \/ PegasusDeleteSettles

ServerNext ==
    \/ ServerEntry
    \/ ServerCreateSettles
    \/ CallSleepElapses
    \/ ServerPollSettles
    \/ \E k \in {"analyze", "gist"} : ServerFanSettles(k)
    \/ \E k \in {"analyze", "gist"} : ServerFanSleepElapses(k)
    \/ ServerScoreSettles
    \/ ServerCleanupSettles

Next == ServerNext \/ GeminiNext \/ HybridNext \/ RoastNext \/ PegasusNext

Spec == Init /\ [][Next]_vars

-----------------------------------------------------------------------------
(***************************************************************************)
(* SpecRetry: the executor alone.                                          *)
(***************************************************************************)
InitRetry ==
    /\ \E dflt \in BOOLEAN, n \in 0..MaxRetries, d \in {DefaultDelay, 250} :
          /\ rDefault = dflt
          /\ rDelay0 = IF dflt THEN DefaultDelay ELSE d
          /\ rc = IF dflt THEN retryApiCall(DefaultRetries, DefaultDelay)
                          ELSE retryApiCall(n, d)
    /\ rInvocations = 1
    /\ rSleeps = <<>>
    /\ rErrors = <<>>
    /\ rAccepted = 0
    /\ PipelineIdle
    /\ IndexIdle
    /\ SignalsIdle

\* A request the service answers is carried out; one that fails may have
\* been carried out before the failure reached the caller.
carriedOut(out, accepted) == out.ok \/ accepted

\* fn() settles: the remote service decides the outcome.
RetryFnSettles ==
    /\ rc.st = "calling"
    /\ \E out \in Successes \cup Errors, accepted \in BOOLEAN :
          /\ rc' = retrySettle(rc, out)
          /\ rAccepted' = IF carriedOut(out, accepted) THEN rAccepted + 1
                          ELSE rAccepted
          /\ rErrors' = IF out.ok THEN rErrors ELSE Append(rErrors, out)
          /\ rSleeps' = IF rc'.st = "sleeping" THEN Append(rSleeps, rc.delay)
                        ELSE rSleeps
    /\ UNCHANGED <<rDefault, rDelay0, rInvocations>>
    /\ UNCHANGED pvars
    /\ UNCHANGED ivars
    /\ UNCHANGED svars

\* sleep(delay) elapses and the recursive call invokes fn() again.
RetrySleepElapses ==
    /\ rc.st = "sleeping"
    /\ rc' = retryRecurse(rc)
    /\ rInvocations' = rInvocations + 1
    /\ UNCHANGED <<rDefault, rDelay0, rSleeps, rErrors, rAccepted>>
    /\ UNCHANGED pvars
    /\ UNCHANGED ivars
    /\ UNCHANGED svars

NextRetry == RetryFnSettles \/ RetrySleepElapses

SpecRetry == InitRetry /\ [][NextRetry]_vars

-----------------------------------------------------------------------------
(***************************************************************************)
(* SpecIndex: getOrCreateGlobalIndex.  The function lists the indexes,     *)
(* adopts the one named GLOBAL_INDEX_NAME if the list holds it and         *)
(* otherwise creates one; it is called once at server start and again by   *)
(* every /generate-post request that finds GLOBAL_INDEX_ID still null.     *)
(* The calls interleave at their awaits.                                   *)
(*   initPc[c] = "listing"   the caller awaits client.index.list()         *)
(*   initPc[c] = "creating"  the caller awaits client.index.create(...)    *)
(***************************************************************************)
\* Identifiers the service gives to the indexes it creates, in order.
IndexIds == <<"idx1", "idx2", "idx3", "idx4", "idx5">>

InitIndex ==
    /\ PipelineIdle
    /\ rc = CallIdle /\ rDefault = FALSE /\ rDelay0 = 0
    /\ rInvocations = 0 /\ rSleeps = <<>> /\ rErrors = <<>>
    /\ rAccepted = 0
    /\ indexes \in {0, 1}        \* the index may exist from an earlier run
    /\ initPc = [c \in Callers |-> IF c = 0 THEN "listing" ELSE "idle"]
    /\ SignalsIdle

\* Where a caller continues once getOrCreateGlobalIndex has returned:
\* the start-up call is finished; a request answers 500 if GLOBAL_INDEX_ID
\* is still null and goes on to upload otherwise.
afterInit(c, gid) ==
    IF c = 0 THEN "done"
    ELSE IF gid = Null THEN "r500" ELSE "upload"

\* app.post("/generate-post"): no file -> 400; GLOBAL_INDEX_ID null ->
\* await getOrCreateGlobalIndex(), which calls client.index.list().
GeneratePostArrives(c) ==
    /\ c # 0 /\ initPc[c] = "idle"
    /\ \E file \in BOOLEAN :
          initPc' = [initPc EXCEPT ![c] =
                        IF ~file THEN "r400"
                        ELSE IF GLOBAL_INDEX_ID = Null THEN "listing"
                        ELSE "upload"]
    /\ UNCHANGED <<indexes, GLOBAL_INDEX_ID>>
    /\ UNCHANGED <<handler, reqFile, pc, loc, call, fan, events, lateWrites,
                   ended, fileExists, thrown, hist>>
    /\ UNCHANGED rvars
    /\ UNCHANGED svars

\* client.index.list() settles: the existing index is adopted, or
\* client.index.create(...) is called; a rejected list is logged.
IndexListSettles(c) ==
    /\ initPc[c] = "listing"
    /\ \E ok \in BOOLEAN :
          IF ok /\ indexes > 0
          THEN /\ GLOBAL_INDEX_ID' = IndexIds[1]
               /\ initPc' = [initPc EXCEPT ![c] = afterInit(c, GLOBAL_INDEX_ID')]
          ELSE IF ok
          THEN /\ initPc' = [initPc EXCEPT ![c] = "creating"]
               /\ UNCHANGED GLOBAL_INDEX_ID
          ELSE /\ initPc' = [initPc EXCEPT ![c] = afterInit(c, GLOBAL_INDEX_ID)]
               /\ UNCHANGED GLOBAL_INDEX_ID
    /\ UNCHANGED indexes
    /\ UNCHANGED <<handler, reqFile, pc, loc, call, fan, events, lateWrites,
                   ended, fileExists, thrown, hist>>
    /\ UNCHANGED rvars
    /\ UNCHANGED svars

\* client.index.create(...) settles: GLOBAL_INDEX_ID = newIndex.id, or the
\* rejection is logged.
IndexCreateSettles(c) ==
    /\ initPc[c] = "creating"
    /\ \E ok \in BOOLEAN :
          IF ok
          THEN /\ indexes' = indexes + 1
               /\ GLOBAL_INDEX_ID' = IndexIds[indexes']
               /\ initPc' = [initPc EXCEPT ![c] = afterInit(c, GLOBAL_INDEX_ID')]
          ELSE /\ initPc' = [initPc EXCEPT ![c] = afterInit(c, GLOBAL_INDEX_ID)]
               /\ UNCHANGED <<indexes, GLOBAL_INDEX_ID>>
    /\ UNCHANGED <<handler, reqFile, pc, loc, call, fan, events, lateWrites,
                   ended, fileExists, thrown, hist>>
    /\ UNCHANGED rvars
    /\ UNCHANGED svars

NextIndex ==
    \/ \E c \in Callers : GeneratePostArrives(c)
    \/ \E c \in Callers : IndexListSettles(c)
    \/ \E c \in Callers : IndexCreateSettles(c)

SpecIndex == InitIndex /\ [][NextIndex]_vars

-----------------------------------------------------------------------------
(***************************************************************************)
(* Properties.                                                             *)
(***************************************************************************)
StreamingHandlers == ServerHandlers \cup GeminiHandlers

Terminal(e) == e.type \in {"complete", "error"}

LastEvent == events[Len(events)]

ProgressIndices == {j \in 1..Len(events) : events[j].type = "progress"}

\* C1: in every run of a streaming handler the progress fractions of the
\* events on the stream are non-decreasing in emission order, a complete or
\* error event is never followed by another event on the stream, and once the
\* stream has been ended its last event is a complete or an error event.
C1_ProgressMonotoneOneTerminal ==
    handler \in StreamingHandlers =>
       /\ \A j \in ProgressIndices : \A k \in ProgressIndices :
             j < k => FloatLeq(events[j].progress, events[k].progress)
       /\ \A j \in 1..Len(events) : Terminal(events[j]) => j = Len(events)
       /\ (ended \/ pc = "done") => (Len(events) > 0 /\ Terminal(LastEvent))
       /\ (Len(events) > 0 /\ Terminal(LastEvent)) => ended

\* A finished Efficient Mode run whose cosmetic poll progress reached its cap
\* before the task became ready.
C1_Witness ==
    /\ handler = "efficient" /\ pc = "done"
    /\ LastEvent.type = "complete"
    /\ \E j \in ProgressIndices : events[j].progress = [h |-> 45, e |-> 1]

\* C2: after the complete or error event has been emitted and the stream
\* ended, no further event is written, also when the cleanup after the
\* complete event fails.
C2_NoWriteAfterEnd == lateWrites = <<>>

TimeoutRaised == thrown.message \in {"Processing timeout", "Processing Timeout"}

FailureRaised ==
    thrown.message \in {"Twelve Labs processing failed",
                        "Processing failed: Unknown error"}

\* C3: the indexing wait loop yields a video identifier iff some poll returned
\* ready; it raises the timeout error iff 60 polls returned a non-terminal
\* status; it raises the distinct failure error iff a poll returned failed.
\* No poll is made after one that returned ready or failed, and never more
\* than 60 return a non-terminal status.
C3_AwaitReady ==
    handler \in ServerHandlers \cup {"hybrid"} =>
       /\ (loc.videoId # Null) <=> hist.ready
       /\ TimeoutRaised <=> hist.pending = 60
       /\ FailureRaised <=> hist.failed
       /\ hist.pending <= 60
       /\ ~(hist.ready /\ hist.failed)
       /\ (hist.ready \/ hist.failed) => pc \notin {"poll", "h_poll"}

\* The wait loop of a retry-wrapped handler ran out of attempts.
C3_Witness == handler = "efficient" /\ TimeoutRaised /\ hist.pending = 60

PassedInputCheck ==
    /\ reqFile
    /\ handler \notin GeminiHandlers => GLOBAL_INDEX_ID # Null

\* C4: on every exit path of a run that passed the input check, the local
\* temporary asset no longer exists once the run has finished (unless the
\* file system refused the unlink).
C4_AssetDeleted ==
    (pc = "done" /\ PassedInputCheck /\ ~hist.unlinkFailed) => ~fileExists

\* C9: in either streaming handler of server.js, whatever text the scoring
\* service answers with, the run ends with a complete event, never an error.
C9_ShapeErrorsComplete ==
    (handler \in ServerHandlers /\ hist.response # "none")
        => LastEvent.type = "complete"

\* C10: in the schema-validating handler a scoring response that lacks a
\* required numeric score completes the run with the default report:
\* every score 50, empty strengths / weaknesses / tips and the error marker
\* as feedback text.
C10_MissingScoreDefault ==
    (handler = "accordion" /\ hist.response = "missingScore") =>
       /\ LastEvent.type = "complete"
       /\ LET r == LastEvent.result IN
             /\ r.scores = [n \in ScoreNames |-> 50]
             /\ r.strengths = <<>> /\ r.weaknesses = <<>> /\ r.tips = <<>>
             /\ r.feedback = "Error parsing AI output"

C10_Witness ==
    /\ handler = "accordion" /\ hist.response = "missingScore" /\ pc = "done"

(***************************************************************************)
(* Properties of the Retry Executor (SpecRetry).                           *)
(***************************************************************************)
RECURSIVE Pow2(_)
Pow2(n) == IF n = 0 THEN 1 ELSE 2 * Pow2(n - 1)

\* C5: when the operation fails k times and then succeeds, retryApiCall
\* returns the success result after k + 1 invocations and exactly k sleeps
\* of d, 2d, ..., 2^(k-1) d; with k = 0 there is no sleep and one invocation.
C5_BackoffThenSuccess ==
    rc.st = "returned" =>
       /\ rc.res \in Successes
       /\ rInvocations = Len(rErrors) + 1
       /\ Len(rSleeps) = Len(rErrors)
       /\ \A j \in 1..Len(rSleeps) : rSleeps[j] = rDelay0 * Pow2(j - 1)

C5_Witness == rc.st = "returned" /\ Len(rErrors) = 2 /\ Len(rSleeps) = 2

\* C6 as claimed: with its default arguments the executor invokes the
\* operation at most 3 times.
C6_AtMostThreeInvocations == rDefault => rInvocations <= 3

\* C6 amended: with its default arguments the executor invokes the operation
\* at most 4 times (the first attempt and 3 retries), and it propagates the
\* failure only after the 4th invocation has failed.
C6_AtMostFourInvocations ==
    rDefault =>
       /\ rInvocations <= 4
       /\ rc.st = "thrown" => rInvocations = 4

C6_Witness == rDefault /\ rc.st = "thrown" /\ rInvocations = 4

\* C7: when every attempt fails, retryApiCall throws exactly the error of
\* the last attempt, and nothing is invoked or slept afterwards.
C7_LastErrorPropagated ==
    rc.st = "thrown" =>
       /\ Len(rErrors) = rInvocations
       /\ rc.res = rErrors[Len(rErrors)]
       /\ Len(rSleeps) = rInvocations - 1
       /\ ~ENABLED NextRetry

C7_Witness ==
    /\ rc.st = "thrown" /\ Len(rErrors) >= 2
    /\ rErrors[1] # rErrors[Len(rErrors)]

\* C8: an operation failing with a non-retryable error (status 400) is
\* invoked exactly once, and no sleep follows that error.
C8_NonRetryableNotRetried ==
    (Len(rErrors) >= 1 /\ rErrors[1].status = 400) =>
       (rInvocations = 1 /\ rSleeps = <<>>)

-----------------------------------------------------------------------------
(***************************************************************************)
(* Properties of the score report and of the cleanup.                      *)
(***************************************************************************)
\* The sub-scores a handler's prompt or schema declares.
DeclaredScores(h) == IF h = "efficient" THEN ScoreNames7 ELSE ScoreNames

\* C11: in every complete event of a server.js handler each declared
\* sub-score of the report is present and lies within [0, 100], whether the
\* report came from the scoring service or from the fallback.
C11_ScoresPresentInRange ==
    handler \in ServerHandlers =>
       \A j \in 1..Len(events) :
          events[j].type = "complete" =>
             LET r == events[j].result IN
             /\ r.hasScores
             /\ \A n \in DeclaredScores(handler) :
                   n \in DOMAIN r.scores /\ scoreInRange(r.scores[n])


\* C12: the wait-for-processing loop of the Gemini File-API handlers polls a
\* bounded number of times: once PollAttempts polls have found the file
\* still PROCESSING the run has failed with an error instead of polling on.
C12_GeminiPollsBounded ==
    (handler \in GeminiHandlers /\ hist.gPolls >= PollAttempts
       /\ stillProcessing(loc.fileState))
       => (pc = "done" /\ LastEvent.type = "error")


\* C13: the analyze / gist fan-out is a full join: when the run has emitted
\* its terminal event and handled the local asset, neither call of the
\* fan-out is still in flight or waiting to be retried.
C13_FanOutFullJoin ==
    (handler \in ServerHandlers /\ pc = "done") =>
       \A k \in {"analyze", "gist"} : fan[k].st \notin {"calling", "sleeping"}


\* Errors a server.js handler raises itself from the results of calls that
\* succeeded.
LocalErrors ==
    {Err(0, "Twelve Labs processing failed"), Err(0, "Processing timeout"),
     Err(0, "rawAnalysisText.replace is not a function"),
     Err(0, "Cannot read properties of null (reading 'metadata')"),
     Err(0, "Cannot create property 'metadata' on number")}

\* C15: in the retry-wrapped pipeline of server.js a run in which at most
\* one attempt of a remote call was rejected (task creation, a status poll,
\* analyze, gist, scoring or the remote delete) never shows that rejection to
\* the caller: no remote error is raised, and the finished run ends with the
\* complete event unless the handler itself rejected a successful result.
C15_SingleTransientInvisible ==
    (handler \in ServerHandlers /\ hist.rejections <= 1) =>
       /\ thrown \notin PipelineErrors
       /\ \A j \in 1..Len(events) :
             events[j].type = "error" =>
                 \/ ~PassedInputCheck
                 \/ thrown \in LocalErrors
       /\ (pc = "done" /\ PassedInputCheck /\ thrown \notin LocalErrors)
             => LastEvent.type = "complete"

\* A run with exactly one rejected attempt that completed.
C15_Witness ==
    /\ handler \in ServerHandlers /\ pc = "done"
    /\ hist.rejections = 1 /\ ~hist.deleteFailed
    /\ LastEvent.type = "complete"

\* C16: every finished run that obtained a video identifier has attempted
\* the deletion of the remote indexed video, also when it ended in an error.
C16_RemoteDeleteAttempted ==
    (handler \in ServerHandlers \cup {"pegasus"} /\ pc = "done"
       /\ loc.videoId # Null) => hist.deletes >= 1

\* C17: when the deletion of the remote indexed video is rejected, the
\* caller has the complete event (or the 200 response) with the report and
\* no error, and the local asset is unlinked all the same.
C17_DeleteFailureTolerated ==
    hist.deleteFailed =>
       /\ pc = "done"
       /\ LastEvent.type \in {"complete", "json"}
       /\ LastEvent.type = "json" => LastEvent.status = 200
       /\ \A j \in 1..Len(events) : events[j].type # "error"
       /\ lateWrites = <<>>
       /\ thrown = NoResult
       /\ fileExists => hist.unlinkFailed

C17_Witness ==
    /\ hist.deleteFailed /\ handler = "efficient"
    /\ LastEvent.type = "complete" /\ ~fileExists

\* C18: the remote delete is non-blocking for the caller: whenever the
\* delete call is awaited, the complete event or the success response has
\* already been emitted.
C18_DeleteNonBlocking ==
    pc \in {"cleanup", "p_delete"} =>
       (ended /\ LastEvent.type \in {"complete", "json"})

\* C19: a request that carries a video but is rejected because the global
\* index is not ready leaves no local temporary asset behind.
C19_NotReadyDeletesAsset ==
    (reqFile /\ GLOBAL_INDEX_ID = Null /\ handler \notin GeminiHandlers
       /\ pc = "done" /\ ~hist.unlinkFailed) => ~fileExists

\* C20: a request without a video asset is rejected with a single error
\* outcome and the run issues no remote call at all.
C20_MissingAssetNoRemoteCall ==
    ~reqFile =>
       /\ ~hist.remote
       /\ hist.deletes = 0 /\ hist.gPolls = 0 /\ hist.pending = 0
       /\ call = CallIdle /\ fan = FanIdle
       /\ pc \in {"start", "done"}
       /\ pc = "done" =>
             /\ Len(events) = 1
             /\ \/ events[1].type = "error"
                \/ (events[1].type = "json" /\ events[1].status = 400)
             /\ lateWrites = <<>>

C20_Witness == ~reqFile /\ pc = "done" /\ handler \in Handlers


(***************************************************************************)
(* Properties of the index initialisation (SpecIndex).                     *)
(***************************************************************************)
\* C14: for every interleaving of the start-up call and the per-request
\* calls of getOrCreateGlobalIndex, the service holds at most one index
\* named GLOBAL_INDEX_NAME.
C14_AtMostOneIndex == indexes <= 1


(***************************************************************************)
(* Properties of the downstream queries.                                   *)
(***************************************************************************)
\* Positions at which a handler awaits a query against the indexed video:
\* analyze, gist, search, niche detection or the remote delete.
QueryInFlight ==
    \/ pc \in {"fanout", "cleanup", "p_fan", "p_delete",
               "h_niche", "h_analyze", "h_gist",
               "r_search", "r_analyze", "r_gist"}

\* C21: a downstream query of a run (analyze, gist, search, remote delete) is
\* in flight only after the indexing task has been seen ready, and the video
\* identifier the run holds for it is not empty.
C21_QueriesAfterReady ==
    QueryInFlight => (hist.ready /\ loc.videoId # Null)


\* C22: every search of a run is scoped to the run's own video: the evidence
\* counts it computes never include a clip of another video of the shared
\* index.
C22_SearchScopedToVideo == ~hist.foreign


(***************************************************************************)
(* Properties of the hashtag backfill of the server.js handlers.           *)
(***************************************************************************)
Range(s) == {s[j] : j \in 1..Len(s)}

\* The report carried by the complete event of a finished server.js run.
CompletedReport == LastEvent.result

ServerCompleted ==
    /\ handler \in ServerHandlers /\ Len(events) > 0
    /\ LastEvent.type = "complete"

\* C23: when the validated report has h < 3 hashtags and extraction obtained
\* d hashtags / topics, the final list has min(10, h + d) entries.
C23_BackfillCount ==
    (ServerCompleted /\ hist.produced < 3) =>
       Len(CompletedReport.hashtags) = Min(HashtagCap, hist.produced + hist.detected)

\* C24: after backfill the final hashtag list holds no entry twice.
C24_BackfillNoDuplicates ==
    (ServerCompleted /\ hist.produced < 3) =>
       Cardinality(Range(CompletedReport.hashtags))
          = Len(CompletedReport.hashtags)

\* C25: in every complete event the hashtag list of the report has at most
\* 10 entries, with or without backfill.
C25_HashtagsCapped ==
    ServerCompleted => Len(CompletedReport.hashtags) <= HashtagCap


\* C29: when the caller supplies an explicit non-empty audience (any value,
\* "General" included) the hybrid handler issues no classification call and
\* the audience it uses and reports is the caller's value.
C29_CallerAudienceHonoured ==
    (handler = "hybrid" /\ hist.callerAudience # "")
        => (~hist.nicheCalled /\ loc.audience = hist.callerAudience)


-----------------------------------------------------------------------------
(***************************************************************************)
(* The signal extraction agents (SpecSignals): the run of a handler from    *)
(* the point where the video is indexed.  Two variants are modelled: the    *)
(* "premium" handler awaits performForensicSearch and analyzePacing, the    *)
(* "auditor" handler awaits the nichePromise, performForensicSearch and     *)
(* the gist call.  Times are in tenths of a second.                         *)
(***************************************************************************)
Variants == {"premium", "auditor"}

\* const negativeQueries = [ ... ]: the labels of the defect catalogue
negativeQueries ==
    <<"Bad Lighting", "Unstable Camera", "Focus Issues", "Static Visuals">>

Queries == 1..Len(negativeQueries)

\* bestMatch.score > 75
ScoreThreshold == 75

\* A clip the search service returns; rank 1 spans 1.5 s - 3.2 s and
\* rank 2 spans 6.0 s - 8.9 s.
Clip(score, rank) ==
    [score |-> score,
     start |-> IF rank = 1 THEN 15 ELSE 60,
     end |-> IF rank = 1 THEN 32 ELSE 89]

\* results.data as the service may return it, in ranking order
SearchData ==
    {<<>>,
     <<Clip(ScoreThreshold, 1)>>,
     <<Clip(ScoreThreshold + 1, 1)>>,
     <<Clip(ScoreThreshold, 1), Clip(ScoreThreshold + 1, 2)>>}

SearchOutcomes ==
    {[ok |-> TRUE, data |-> d] : d \in SearchData}
        \cup {[ok |-> FALSE, data |-> <<>>]}

NoSignal == [hit |-> FALSE, from |-> 0, to |-> 0]

\* `${Math.floor(bestMatch.start)}s-${Math.floor(bestMatch.end)}s`
timestamp(clip) ==
    [hit |-> TRUE, from |-> clip.start \div 10, to |-> clip.end \div 10]

\* premium: const matches = results.data || []; const bestMatch = matches[0];
\*          if (bestMatch && bestMatch.score > 75) issues.push(...)
\* auditor: const matches = results.data.filter((clip) => (clip.score ?? 0) > 75);
\*          if (matches.length > 0) { const bestMatch = matches[0]; return ... }
bestMatch(v, data) ==
    IF v = "premium"
    THEN IF Len(data) > 0 /\ data[1].score > ScoreThreshold
         THEN timestamp(data[1]) ELSE NoSignal
    ELSE LET matches == SelectSeq(data, LAMBDA clip : clip.score > ScoreThreshold)
         IN IF Len(matches) > 0 THEN timestamp(matches[1]) ELSE NoSignal

forensicItemFlagsFailure(v, out) ==
    IF out.ok THEN bestMatch(v, out.data) ELSE timestamp(Clip(0, 1))

\* The callback of negativeQueries.map: try { ... } catch (e) { } - a
\* rejected search leaves no issue for its query.
forensicItem(v, out) ==
    IF out.ok THEN bestMatch(v, out.data) ELSE NoSignal

\* Bound: the number of segments of a transcript.
MaxSegments == 3

\* The instants at which transcript segments start and end.
TimePoints == {10, 28, 58, 83, 108, 120}

SetMin(S) == CHOOSE x \in S : \A y \in S : x <= y

\* value.split(" ").length of a two-word segment
SegmentWords == 2

RECURSIVE segmentsOf(_)
segmentsOf(S) ==
    IF S = {} THEN <<>>
    ELSE LET a == SetMin(S)
             b == SetMin(S \ {a})
         IN <<[start |-> a, end |-> b, words |-> SegmentWords]>>
                \o segmentsOf(S \ {a, b})

\* transcripts the service may return: segments in time order
Transcripts ==
    {segmentsOf(S) : S \in {T \in SUBSET TimePoints :
                              /\ Cardinality(T) % 2 = 0
                              /\ Cardinality(T) <= 2 * MaxSegments}}

TranscriptOutcomes ==
    {[ok |-> TRUE, segs |-> t] : t \in Transcripts}
        \cup {[ok |-> FALSE, segs |-> <<>>]}

\* videoDuration in seconds
Durations == {0, 60}

\* if (startNext - endCurrent > 2.5)
DeadAirGap == 25

\* The pairs (end, start) of one-decimal instants, 2.5 s apart, whose
\* difference as IEEE doubles is 2.5000000000000004 (e.g. 8.3 - 5.8).
GapRoundsUp ==
    {<<19, 44>>, <<24, 49>>, <<29, 54>>, <<34, 59>>, <<39, 64>>,
     <<58, 83>>, <<63, 88>>, <<68, 93>>, <<73, 98>>, <<78, 103>>}

\* The pairs whose difference as doubles is 2.4999999999999996 (e.g. 4.1 - 1.6).
GapRoundsDown ==
    {<<16, 41>>, <<21, 46>>, <<26, 51>>, <<31, 56>>, <<36, 61>>,
     <<57, 82>>, <<62, 87>>, <<67, 92>>, <<72, 97>>, <<77, 102>>}

\* startNext - endCurrent as the double subtraction computes it, in
\* twentieths of a second; an odd value lies just beside the even one.
minus(startNext, endCurrent) ==
    2 * (startNext - endCurrent)
      + (IF <<endCurrent, startNext>> \in GapRoundsUp THEN 1
         ELSE IF <<endCurrent, startNext>> \in GapRoundsDown THEN -1
         ELSE 0)

deadAir(startNext, endCurrent) ==
    minus(startNext, endCurrent) > 2 * DeadAirGap

RECURSIVE deadAirLoopInclusive(_, _)
deadAirLoopInclusive(t, i) ==
    IF i < Len(t)
    THEN (IF minus(t[i + 1].start, t[i].end) >= 2 * DeadAirGap THEN 1 ELSE 0)
           + deadAirLoopInclusive(t, i + 1)
    ELSE 0

\* for (let i = 0; i < transcript.length - 1; i++) { ... deadAirCount++ }
RECURSIVE deadAirLoop(_, _)
deadAirLoop(t, i) ==
    IF i < Len(t)
    THEN (IF deadAir(t[i + 1].start, t[i].end) THEN 1 ELSE 0)
           + deadAirLoop(t, i + 1)
    ELSE 0

\* transcript.forEach((t) => { words += t.value.split(" ").length })
RECURSIVE wordCount(_, _)
wordCount(t, i) ==
    IF i <= Len(t) THEN t[i].words + wordCount(t, i + 1) ELSE 0

\* durationMins > 0 ? Math.round(words / durationMins) : 0
wpmOf(words, duration) ==
    IF duration > 0
    THEN (2 * words * 60 + duration) \div (2 * duration)
    ELSE 0

\* { wpm: 0, deadAirCount: 0, hasAudio: false }
NeutralPacing == [wpm |-> 0, deadAirCount |-> 0, hasAudio |-> FALSE]

\* analyzePacing(indexId, videoId, duration): a failed transcription call
\* or an empty transcript gives the neutral value.
analyzePacing(out, duration) ==
    IF ~out.ok \/ Len(out.segs) = 0
    THEN NeutralPacing
    ELSE [wpm |-> wpmOf(wordCount(out.segs, 1), duration),
          deadAirCount |-> deadAirLoop(out.segs, 1),
          hasAudio |-> TRUE]

\* !audience || audience === "" ? detectVideoNiche(videoId)
\*                              : Promise.resolve(audience)
nichePromise(a) ==
    IF a = ""
    THEN [st |-> "calling", failed |-> FALSE, val |-> ""]
    ELSE [st |-> "settled", failed |-> FALSE, val |-> a]

CallPending == [st |-> "calling", failed |-> FALSE]
NoCall == [st |-> "settled", failed |-> FALSE]

\* pos is the position at which issues.push(...) placed the query's issue
\* (premium), 0 if nothing was pushed.
SearchPending ==
    [st |-> "calling", failed |-> FALSE, data |-> <<>>, issue |-> NoSignal,
     pos |-> 0]

\* issues.length
pushedCount(s) == Cardinality({q \in DOMAIN s : s[q].pos > 0})

\* issues.push({ type: item.label, ... }) runs when the query's search
\* settles (premium); the auditor's callback returns its issue instead.
pushPosition(v, s, sig) ==
    IF v = "premium" /\ sig.hit THEN pushedCount(s) + 1 ELSE 0

PacingPending ==
    [st |-> "calling", failed |-> FALSE, segs |-> <<>>, data |-> NeutralPacing]

NoResponse == [status |-> 0, cause |-> "", criticalIssues |-> <<>>,
               hasIssues |-> FALSE, detectedAudience |-> ""]

InitSignals ==
    /\ PipelineIdle
    /\ rc = CallIdle /\ rDefault = FALSE /\ rDelay0 = 0
    /\ rInvocations = 0 /\ rSleeps = <<>> /\ rErrors = <<>>
    /\ rAccepted = 0
    /\ IndexIdle
    /\ variant \in Variants
    \* premium: const { audience = "General" } = req.body, never classified
    /\ audience \in (IF variant = "premium" THEN {"General"}
                     ELSE {"", "Fitness", "General"})
    /\ searches = [q \in Queries |-> SearchPending]
    /\ pacing = IF variant = "premium" THEN PacingPending
                ELSE [PacingPending EXCEPT !.st = "settled"]
    /\ niche = IF variant = "premium"
               THEN [st |-> "settled", failed |-> FALSE, val |-> audience]
               ELSE nichePromise(audience)
    /\ gist = IF variant = "premium" THEN NoCall ELSE CallPending
    /\ stage = "agents"
    /\ finalData = NoResponse

\* client.search.query(...) of one catalogue query settles.
ForensicQuerySettles(q) ==
    /\ stage = "agents" /\ searches[q].st = "calling"
    /\ \E out \in SearchOutcomes :
          searches' = [searches EXCEPT ![q] =
                          [st |-> "settled", failed |-> ~out.ok,
                           data |-> out.data,
                           issue |-> forensicItem(variant, out),
                           pos |-> pushPosition(variant, searches,
                                                forensicItem(variant, out))]]
    /\ UNCHANGED <<variant, audience, pacing, niche, gist, stage, finalData>>
    /\ UNCHANGED rvars
    /\ UNCHANGED pvars
    /\ UNCHANGED ivars

\* client.indexes.video.transcription(indexId, videoId) settles.
TranscriptSettles ==
    /\ stage = "agents" /\ pacing.st = "calling"
    /\ \E out \in TranscriptOutcomes, duration \in Durations :
          pacing' = [st |-> "settled", failed |-> ~out.ok,
                     segs |-> out.segs,
                     data |-> analyzePacing(out, duration)]
    /\ UNCHANGED <<variant, audience, searches, niche, gist, stage, finalData>>
    /\ UNCHANGED rvars
    /\ UNCHANGED pvars
    /\ UNCHANGED ivars

\* The classification call of detectVideoNiche settles:
\* try { return result.data.trim() } catch (e) { return "General" }
NicheSettles ==
    /\ stage = "agents" /\ niche.st = "calling"
    /\ \E ok \in BOOLEAN, detected \in Niches :
          niche' = [st |-> "settled", failed |-> ~ok,
                    val |-> IF ok THEN detected ELSE "General"]
    /\ UNCHANGED <<variant, audience, searches, pacing, gist, stage, finalData>>
    /\ UNCHANGED rvars
    /\ UNCHANGED pvars
    /\ UNCHANGED ivars

\* res.status(500).json({ error: ... })
Failure(cause) == [NoResponse EXCEPT !.status = 500, !.cause = cause]

\* client.generate.gist(...) settles; it is awaited bare inside
\* Promise.all, so its rejection reaches the catch block of the handler.
GistSettles ==
    /\ stage = "agents" /\ gist.st = "calling"
    /\ \E ok \in BOOLEAN :
          /\ gist' = [st |-> "settled", failed |-> ~ok]
          /\ IF ok THEN UNCHANGED <<stage, finalData>>
             ELSE /\ stage' = "done"
                  /\ finalData' = Failure("gist")
    /\ UNCHANGED <<variant, audience, searches, pacing, niche>>
    /\ UNCHANGED rvars
    /\ UNCHANGED pvars
    /\ UNCHANGED ivars

\* Promise.all resolves: audience = detectedAudience, the prompt is built
\* and client.generate.text is issued.  The raw results of the agents are
\* out of scope from here on.
AgentsJoined ==
    /\ stage = "agents"
    /\ \A q \in Queries : searches[q].st = "settled"
    /\ pacing.st = "settled" /\ niche.st = "settled"
    /\ gist.st = "settled" /\ ~gist.failed
    /\ audience' = niche.val
    /\ searches' = [q \in Queries |-> [searches[q] EXCEPT !.data = <<>>]]
    /\ pacing' = [pacing EXCEPT !.segs = <<>>]
    /\ stage' = "generate"
    /\ UNCHANGED <<variant, niche, gist, finalData>>
    /\ UNCHANGED rvars
    /\ UNCHANGED pvars
    /\ UNCHANGED ivars

\* One entry of criticalIssues.
Entry(kind, q, sig, n) ==
    [kind |-> kind, q |-> q, from |-> sig.from, to |-> sig.to, n |-> n]

RECURSIVE forensicText(_, _)
\* The issues in catalogue order, one entry per query with a signal:
\* results.filter((r) => r !== null) of the auditor.
forensicText(s, q) ==
    IF q > Len(negativeQueries) THEN <<>>
    ELSE (IF s[q].issue.hit THEN <<Entry("forensic", q, s[q].issue, 0)>>
          ELSE <<>>) \o forensicText(s, q + 1)

\* The issues array of the premium search: entries in the order pushed.
pushedIssues(s) ==
    [i \in 1..pushedCount(s) |->
        LET q == CHOOSE x \in DOMAIN s : s[x].pos = i
        IN Entry("forensic", q, s[q].issue, 0)]

\* forensicIssues as performForensicSearch returns it
forensicIssues(v, s) ==
    IF v = "premium" THEN pushedIssues(s) ELSE forensicText(s, 1)

\* What the generative model answers: text that is not JSON, an object
\* without criticalIssues, an object with one issue of its own, an object
\* with one issue that names the label of the first catalogue query and no
\* timestamp.
LlmOutputs ==
    {[parses |-> FALSE, hasIssues |-> FALSE, issues |-> <<>>],
     [parses |-> TRUE, hasIssues |-> FALSE, issues |-> <<>>],
     [parses |-> TRUE, hasIssues |-> TRUE,
      issues |-> <<Entry("model", 0, NoSignal, 0)>>],
     [parses |-> TRUE, hasIssues |-> TRUE,
      issues |-> <<Entry("model", 1, NoSignal, 0)>>]}

\* JSON.stringify(finalResult.criticalIssues).includes(issue.substring(0, 10)):
\* the first ten characters of an issue are the start of its label.
cited(issues, e) == \E i \in 1..Len(issues) : issues[i].q = e.q

\* finalData = { overallScore: 0, criticalIssues: ["AI generation error"], ... }
ParseFallback ==
    [parses |-> TRUE, hasIssues |-> TRUE,
     issues |-> <<Entry("error", 0, NoSignal, 0)>>]

\* if (pacingData.deadAirCount > 1)
PacingAlertAbove == 1

FinalReport(issues, a) ==
    [status |-> 200, cause |-> "", criticalIssues |-> issues,
     hasIssues |-> TRUE, detectedAudience |-> a]

\* premium, step 5: JSON.parse or the fallback structure; forensic issues
\* are prepended; the pacing warning is pushed.  Spreading or pushing to a
\* missing criticalIssues throws.
mergePremium(llm, forensic, pacingData, a) ==
    LET parsed == IF llm.parses THEN llm ELSE ParseFallback
        alert == pacingData.deadAirCount > PacingAlertAbove
    IN  IF (Len(forensic) > 0 \/ alert) /\ ~parsed.hasIssues
        THEN Failure("merge")
        ELSE IF ~parsed.hasIssues
        THEN [FinalReport(<<>>, a) EXCEPT !.hasIssues = FALSE]
        ELSE FinalReport(forensic \o parsed.issues
                      \o (IF alert
                          THEN <<Entry("pacing", 0, NoSignal,
                                       pacingData.deadAirCount)>>
                          ELSE <<>>), a)

\* auditor, step 5: JSON.parse throws on text that is not JSON; the
\* forensic issues the model did not cite are unshifted.
mergeAuditor(llm, forensic, a) ==
    IF ~llm.parses THEN Failure("parse")
    ELSE IF Len(forensic) > 0 /\ ~llm.hasIssues THEN Failure("merge")
    ELSE IF ~llm.hasIssues
    THEN [FinalReport(<<>>, a) EXCEPT !.hasIssues = FALSE]
    ELSE LET missingIssues ==
                 SelectSeq(forensic, LAMBDA e : ~cited(llm.issues, e))
         IN FinalReport(missingIssues \o llm.issues, a)

merge(v, llm, forensic, pacingData, a) ==
    IF v = "premium" THEN mergePremium(llm, forensic, pacingData, a)
    ELSE mergeAuditor(llm, forensic, a)

\* client.generate.text(...) settles.  premium: on rejection the handler
\* falls back to client.analyze; auditor: the rejection fails the run.
GenerateSettles ==
    /\ stage = "generate"
    /\ \E ok \in BOOLEAN, llm \in LlmOutputs :
          IF ok
          THEN /\ finalData' = merge(variant, llm, forensicIssues(variant, searches),
                                     pacing.data, audience)
               /\ stage' = "done"
          ELSE IF variant = "premium"
          THEN /\ stage' = "fallback"
               /\ UNCHANGED finalData
          ELSE /\ finalData' = Failure("generate")
               /\ stage' = "done"
    /\ UNCHANGED <<variant, audience, searches, pacing, niche, gist>>
    /\ UNCHANGED rvars
    /\ UNCHANGED pvars
    /\ UNCHANGED ivars

\* premium: aiResult = await client.analyze({ videoId, prompt, ... })
FallbackSettles ==
    /\ stage = "fallback"
    /\ \E ok \in BOOLEAN, llm \in LlmOutputs :
          /\ finalData' = IF ok
                          THEN merge(variant, llm, forensicIssues(variant, searches),
                                     pacing.data, audience)
                          ELSE Failure("generate")
          /\ stage' = "done"
    /\ UNCHANGED <<variant, audience, searches, pacing, niche, gist>>
    /\ UNCHANGED rvars
    /\ UNCHANGED pvars
    /\ UNCHANGED ivars

NextSignals ==
    \/ \E q \in Queries : ForensicQuerySettles(q)
    \/ TranscriptSettles
    \/ NicheSettles
    \/ GistSettles
    \/ AgentsJoined
    \/ GenerateSettles
    \/ FallbackSettles

SpecSignals == InitSignals /\ [][NextSignals]_vars

-----------------------------------------------------------------------------
(***************************************************************************)
(* Properties of the signal extraction agents (SpecSignals).               *)
(***************************************************************************)
\* The result of a catalogue query that has settled and is still in scope.
Returned(q) ==
    stage = "agents" /\ searches[q].st = "settled" /\ ~searches[q].failed

TopMatchOver(q) ==
    /\ Len(searches[q].data) > 0
    /\ searches[q].data[1].score > ScoreThreshold

\* C26: for each catalogue query a signal is emitted if and only if the
\* first-ranked match scores strictly above the threshold (none when only
\* a lower-ranked match does), and the signal carries the time range of
\* the first-ranked match.
C26_SignalIffTopMatch ==
    \A q \in Queries :
        Returned(q) =>
            /\ searches[q].issue.hit <=> TopMatchOver(q)
            /\ searches[q].issue.hit
                 => searches[q].issue = timestamp(searches[q].data[1])

\* The number of adjacent pairs of segments more than 2.5 s apart.
GapsOver(t) ==
    Cardinality({i \in 1..(Len(t) - 1) :
                    minus(t[i + 1].start, t[i].end) > 2 * DeadAirGap})

HasPacingEntry ==
    \E i \in 1..Len(finalData.criticalIssues) :
        finalData.criticalIssues[i].kind = "pacing"

\* C28: a run whose pacing signal reports exactly one dead-air event and
\* in which no defect is detected returns a report with a pacing entry in
\* its issues, whatever the generative model returned.
C28_SinglePauseReported ==
    (stage = "done" /\ variant = "premium" /\ finalData.status = 200
       /\ pacing.data.deadAirCount = 1
       /\ \A q \in Queries : ~searches[q].issue.hit)
        => HasPacingEntry

\* An agent's remote call is rejected in this step.
AgentCallFails ==
    \/ \E q \in Queries : searches[q].st = "calling" /\ searches'[q].failed
    \/ pacing.st = "calling" /\ pacing'.failed
    \/ niche.st = "calling" /\ niche'.failed

NeutralOnFailure ==
    /\ \A q \in Queries :
          (searches[q].st = "settled" /\ searches[q].failed)
              => searches[q].issue = NoSignal
    /\ (pacing.st = "settled" /\ pacing.failed) => pacing.data = NeutralPacing
    /\ (niche.st = "settled" /\ niche.failed) => niche.val = "General"
    /\ finalData.status = 500 => finalData.cause \in {"gist", "generate", "parse", "merge"}

\* C30: the rejection of one agent's remote call (a defect-search query,
\* the transcript fetch, the niche classification) never fails the run:
\* the agent contributes its neutral value, the run goes on, and what the
\* other queries and agents returned stays as it was.
C30_AgentFailureContained ==
    /\ []NeutralOnFailure
    /\ [][AgentCallFails =>
            /\ stage' = "agents" /\ finalData' = finalData
            /\ \A q \in Queries :
                  searches[q].st = "settled" => searches'[q] = searches[q]
            /\ pacing.st = "settled" => pacing' = pacing
            /\ niche.st = "settled" => niche' = niche]_vars

\* A run that lost a search query, the transcript, or the classification
\* and still answered 200 with another query's signal in the report.
C30_Witness ==
    /\ stage = "done" /\ finalData.status = 200
    /\ \E q \in Queries : searches[q].failed
    /\ \E q \in Queries : searches[q].issue.hit
    /\ pacing.failed \/ niche.failed
    /\ Len(finalData.criticalIssues) > 1

-----------------------------------------------------------------------------
(***************************************************************************)
(* Properties of the error path, normalization and termination.            *)
(***************************************************************************)
\* The message texts of the exceptions a remote call may raise.
RemoteMessages == {e.message : e \in PipelineErrors} \ {""}

\* The message an event or response carries to the caller, "" if none.
CallerMessage(ev) ==
    IF ev.type = "error" THEN ev.message
    ELSE IF ev.type = "json" /\ "error" \in DOMAIN ev THEN ev.error
    ELSE ""

\* C31: the message of an error event or error response is one of the
\* pipeline's own short messages; the message text of an exception raised by
\* a remote call is never forwarded to the caller.
C31_NoRemoteMessageForwarded ==
    \A j \in 1..Len(events) : CallerMessage(events[j]) \notin RemoteMessages

\* C32: for a bare string, an object whose data is a string, or an object
\* whose content is a string, the normalized analysis text is exactly that
\* string (also when it is empty), never the response object.
C32_NormalizedIsHeldString == ~hist.rawMismatch

\* The generative model's answer was obtained and is JSON.
Synthesized ==
    stage = "done" /\ finalData.cause \notin {"gist", "generate", "parse"}

\* C33: every defect signal of the forensic search appears in the
\* criticalIssues of the report returned to the caller, whatever the model
\* returned - a report without criticalIssues, or one that names the defect
\* label without its timestamp.
C33_SignalsInReport ==
    Synthesized =>
        /\ finalData.status = 200
        /\ \A q \in Queries :
              searches[q].issue.hit =>
                 \E i \in 1..Len(finalData.criticalIssues) :
                    finalData.criticalIssues[i]
                        = Entry("forensic", q, searches[q].issue, 0)

\* C34: in the Gemini streaming handler no progress event emitted while the
\* generation stream is consumed has a fraction greater than 0.95.
C34_GenerationProgressCapped ==
    handler = "gemini" =>
        \A j \in 1..Len(events) :
            (events[j].type = "progress"
               /\ events[j].message = "Generating insights...")
                => FloatLeq(events[j].progress, F(95))

-----------------------------------------------------------------------------
(***************************************************************************)
(* SpecServerLive: the runs of the two server.js handlers, where every     *)
(* remote call that is in flight eventually settles and every sleep        *)
(* eventually elapses.                                                     *)
(***************************************************************************)
InitServer == Init /\ handler \in ServerHandlers

SpecServerLive ==
    InitServer /\ [][ServerNext]_vars /\ WF_vars(ServerNext)

TerminalEmitted == Len(events) > 0 /\ Terminal(LastEvent)

\* C35: if every remote call eventually returns, every run of the server.js
\* streaming pipeline eventually emits its terminal event.
C35_TerminalEventually == <>TerminalEmitted

\* A run that used all its status polls, had calls rejected and retried,
\* and emitted its terminal event.
C35_Witness ==
    /\ handler \in ServerHandlers /\ TerminalEmitted
    /\ hist.pending = PollAttempts /\ hist.rejections > 0

\* C36: the requests of one retry-wrapped task creation cause at most one
\* task to be accepted by the service, also when an attempt the service
\* accepted was reported to the caller as failed and is issued again.
C36_AtMostOneTaskAccepted == rAccepted <= 1

\* C37: once GLOBAL_INDEX_ID has been set to a non-null value it never
\* changes, under any interleaving of index initialisations and requests.
C37_IndexIdStable ==
    [][GLOBAL_INDEX_ID # Null => GLOBAL_INDEX_ID' = GLOBAL_INDEX_ID]_vars

\* C38: the list of issues the push-based forensic search returns is the
\* same for every completion order of its concurrent searches: the issues
\* appear in catalogue order.
C38_IssuesInCatalogueOrder ==
    (variant = "premium" /\ stage # "agents")
        => forensicIssues(variant, searches) = forensicText(searches, 1)

\* C39: backfill never drops a hashtag the scoring service produced: when
\* the validated report held the single hashtag "#a" and backfill took place,
\* "#a" is still in the final list, for any number of detected hashtags.
C39_BackfillKeepsProduced ==
    (ServerCompleted /\ handler = "efficient" /\ hist.produced = 1)
        => "#a" \in Range(CompletedReport.hashtags)

=============================================================================
